---- MODULE Spec2Model ----
(***************************************************************************)
(* A model of the bebop-lang Lisp core: the value model (lisp/mod.rs), the *)
(* environment chain (lisp/env.rs), the builtins (lisp/builtin.rs) and the *)
(* evaluator (lisp/eval.rs), driven by the read-eval-print loop of         *)
(* bin/repl.rs.                                                            *)
(***************************************************************************)
EXTENDS Integers, Sequences, FiniteSets, TLC

\* env: the environment of the process; last: the operation just done;
\* pc: where the driving loop stands; steps: the lines read so far;
\* clock: the sub-second nanoseconds of the system clock when the current
\* step began.
VARIABLES env, last, pc, steps, clock

vars == <<env, last, pc, steps, clock>>

(***************************************************************************)
(* Bounds of the model.                                                    *)
(***************************************************************************)
\* Largest number of frames the environment API driver pushes.
MaxFrames == 3
\* Number of lines the read-eval-print loop reads.
MaxSteps == 3
\* Nesting of eval/call activations the host stack holds.
MaxEvalDepth == 14

(***************************************************************************)
(* Option and Result of the host language.                                 *)
(***************************************************************************)
None == [some |-> FALSE]

Some(v) == [some |-> TRUE, v |-> v]

\* Ok(value)
Ok(v) == [k |-> "ok", v |-> v]

\* Lerr::new(etype, message): details is fixed by etype; the message is kept
\* as its format string and the values formatted into it (a count as a Num, a
\* name as a Sym).
LerrDetails(etype) ==
  CASE etype = "DivZero" -> "Cannot Divide By Zero"
    [] etype = "BadOp" -> "Invalid Operator"
    [] etype = "BadNum" -> "Invalid Operand"
    [] etype = "IncorrectParamCount" -> "Incorrect Number of Params passed to function"
    [] etype = "WrongType" -> "Incorrect Data Type used"
    [] etype = "EmptyList" -> "Empty List passed to function"
    [] etype = "UnboundSymbol" -> "This Symbol has not been Defined"
    [] etype = "Interrupt" -> "User defined Error"

Lerr_new(etype, fmt, fargs) ==
  [k |-> "err", etype |-> etype, details |-> LerrDetails(etype),
   fmt |-> fmt, fargs |-> fargs]

\* A host-level panic (index out of bounds, unwrap of None) or a stack
\* overflow: the process is torn down, nothing is returned.
Panic(why) == [k |-> "panic", why |-> why]

(***************************************************************************)
(* Lval, the value model.  A Num is an f64, kept as the exact fraction n/d *)
(* (d > 0), with d = 0 standing for NaN.                                   *)
(***************************************************************************)
Sym(s) == [t |-> "Sym", s |-> s]

NumQ(n, d) == [t |-> "Num", n |-> n, d |-> d]

Num(n) == NumQ(n, 1)

NaN == NumQ(0, 0)

Sexpr(c) == [t |-> "Sexpr", c |-> c]

Qexpr(c) == [t |-> "Qexpr", c |-> c]

\* Fun(name, fn pointer): the function is identified by its name.
Fun(name) == [t |-> "Fun", name |-> name]

\* Str(text): the text is a sequence of characters.
Str(chars) == [t |-> "Str", chars |-> chars]

Lambda(args, body, lenv) ==
  [t |-> "Lambda", args |-> args, body |-> body, lenv |-> lenv]

(***************************************************************************)
(* Lookup (a HashMap<String, Lval>) and Lenv (the chain of frames, head    *)
(* first).                                                                 *)
(***************************************************************************)
Lookup_new == [x \in {} |-> None]

\* HashMap::insert
HashMapInsert(m, key, lval) ==
  [x \in (DOMAIN m) \cup {key} |-> IF x = key THEN lval ELSE m[x]]

\* HashMap::get
HashMapGet(m, key) == IF key \in DOMAIN m THEN Some(m[key]) ELSE None

Lenv_new == <<>>

push(e, lookup) == <<lookup>> \o e

\* pop: the chain left and the frame returned
pop(e) ==
  IF e = <<>> THEN [env |-> e, ret |-> None]
  ELSE [env |-> Tail(e), ret |-> Some(Head(e))]

peek(e) == IF e = <<>> THEN None ELSE Some(Head(e))

\* insert, were it to bind in the outermost frame
insert_AsGlobal(e, key, lval) ==
  IF e = <<>> THEN e
  ELSE [e EXCEPT ![Len(e)] = HashMapInsert(@, key, lval)]

insert(e, key, lval) ==
  IF e = <<>> THEN e
  ELSE <<HashMapInsert(Head(e), key, lval)>> \o Tail(e)

\* The loop of insert_last: i walks the chain from the head; the frame whose
\* parent is None takes the binding.
RECURSIVE InsertLastLoop(_, _, _, _)
InsertLastLoop(e, i, key, lval) ==
  IF i > Len(e) THEN e
  ELSE IF i + 1 > Len(e)
       THEN InsertLastLoop([e EXCEPT ![i] = HashMapInsert(@, key, lval)],
                           i + 1, key, lval)
       ELSE InsertLastLoop(e, i + 1, key, lval)

\* insert_last, were it to bind in the innermost frame
insert_last_AsLocal(e, key, lval) == insert(e, key, lval)

insert_last(e, key, lval) == InsertLastLoop(e, 1, key, lval)

\* The loop of get over iter(): the first frame that holds the key wins.
RECURSIVE GetLoop(_, _, _)
GetLoop(e, i, key) ==
  IF i > Len(e) THEN None
  ELSE IF HashMapGet(e[i], key).some THEN HashMapGet(e[i], key)
       ELSE GetLoop(e, i + 1, key)

\* get, were it to search from the outermost frame inward
get_OutermostWins(e, key) ==
  GetLoop([i \in 1..Len(e) |-> e[Len(e) + 1 - i]], 1, key)

get(e, key) == GetLoop(e, 1, key)

(***************************************************************************)
(* f64 arithmetic on exact fractions.                                      *)
(***************************************************************************)
Abs(n) == IF n < 0 THEN -n ELSE n

RECURSIVE Gcd(_, _)
Gcd(a, b) == IF b = 0 THEN a ELSE Gcd(b, a % b)

\* The fraction n/d in lowest terms with a positive denominator.
Frac(n, d) ==
  IF d = 0 THEN NaN
  ELSE LET g == Gcd(Abs(n), Abs(d))
           s == IF d < 0 THEN -1 ELSE 1
       IN  NumQ((s * n) \div g, (s * d) \div g)

IsNaN(x) == x.d = 0

\* x == 0_f64
IsZero(x) == x.d # 0 /\ x.n = 0

\* a == b on f64: NaN equals nothing
F64Eq(x, y) == ~IsNaN(x) /\ ~IsNaN(y) /\ x.n = y.n /\ x.d = y.d

F64Lt(x, y) == ~IsNaN(x) /\ ~IsNaN(y) /\ x.n * y.d < y.n * x.d

F64Neg(x) == IF IsNaN(x) THEN NaN ELSE NumQ(-x.n, x.d)

F64Add(x, y) ==
  IF IsNaN(x) \/ IsNaN(y) THEN NaN ELSE Frac(x.n * y.d + y.n * x.d, x.d * y.d)

F64Sub(x, y) ==
  IF IsNaN(x) \/ IsNaN(y) THEN NaN ELSE Frac(x.n * y.d - y.n * x.d, x.d * y.d)

F64Mul(x, y) ==
  IF IsNaN(x) \/ IsNaN(y) THEN NaN ELSE Frac(x.n * y.n, x.d * y.d)

\* x / y for y # 0
F64Div(x, y) ==
  IF IsNaN(x) \/ IsNaN(y) THEN NaN ELSE Frac(x.n * y.d, x.d * y.n)

\* The integer part of p/q (q > 0), rounded toward zero.
TruncDiv(p, q) == IF p >= 0 THEN p \div q ELSE -((-p) \div q)

\* x % y: the remainder has the sign of x; x % 0 is NaN.
F64Rem(x, y) ==
  IF IsNaN(x) \/ IsNaN(y) \/ IsZero(y) THEN NaN
  ELSE LET q == F64Div(x, y)
           t == NumQ(TruncDiv(q.n, q.d), 1)
       IN  F64Sub(x, F64Mul(t, y))

(***************************************************************************)
(* PartialEq for Lval: variant by variant; the environment a Lambda        *)
(* captured is not compared.                                               *)
(***************************************************************************)
RECURSIVE LvalEq(_, _)
RECURSIVE VecEq(_, _)
VecEq(a, b) ==
  /\ Len(a) = Len(b)
  /\ \A i \in 1..Len(a) : LvalEq(a[i], b[i])

\* PartialEq, were two lambdas also required to have captured the same
\* environment
LvalEq_ComparesEnv(a, b) ==
  IF a.t # b.t THEN FALSE
  ELSE CASE a.t = "Sym" -> a.s = b.s
         [] a.t = "Num" -> F64Eq(a, b)
         [] a.t = "Sexpr" -> VecEq(a.c, b.c)
         [] a.t = "Qexpr" -> VecEq(a.c, b.c)
         [] a.t = "Fun" -> a.name = b.name
         [] a.t = "Str" -> a.chars = b.chars
         [] a.t = "Lambda" -> VecEq(a.body, b.body) /\ a.args = b.args /\ a.lenv = b.lenv

LvalEq(a, b) ==
  IF a.t # b.t THEN FALSE
  ELSE CASE a.t = "Sym" -> a.s = b.s
         [] a.t = "Num" -> F64Eq(a, b)
         [] a.t = "Sexpr" -> VecEq(a.c, b.c)
         [] a.t = "Qexpr" -> VecEq(a.c, b.c)
         [] a.t = "Fun" -> a.name = b.name
         [] a.t = "Str" -> a.chars = b.chars
         [] a.t = "Lambda" -> VecEq(a.body, b.body) /\ a.args = b.args

\* Llambda::new: the captured environment is a new chain of one frame.
\* Llambda::new, were the frame not pushed on the new chain
Llambda_new_NoFrame(args, body, lookup) == Lambda(args, body, Lenv_new)

Llambda_new(args, body, lookup) == Lambda(args, body, push(Lenv_new, lookup))

to_num(expr) == IF expr.t = "Num" THEN Some(expr) ELSE None

to_sym(expr) == IF expr.t = "Sym" THEN Some(expr.s) ELSE None

to_str(expr) == IF expr.t = "Str" THEN Some(expr.chars) ELSE None

to_qexpr(expr) == IF expr.t = "Qexpr" THEN Some(expr.c) ELSE None

\* into_iter().map(f).collect::<Option<Vec<_>>>()
ToNums(vec) == [i \in 1..Len(vec) |-> to_num(vec[i])]

ToSyms(vec) == [i \in 1..Len(vec) |-> to_sym(vec[i])]

ToStrs(vec) == [i \in 1..Len(vec) |-> to_str(vec[i])]

ToQexprs(vec) == [i \in 1..Len(vec) |-> to_qexpr(vec[i])]

AllSome(opts) == \A i \in 1..Len(opts) : opts[i].some

Unwrapped(opts) == [i \in 1..Len(opts) |-> opts[i].v]

(***************************************************************************)
(* The builtins that neither read nor change the environment.              *)
(***************************************************************************)
\* The while loop of builtin_op over numbers[i..], x the accumulator.
RECURSIVE OpLoop(_, _, _, _)
\* The loop, were `-` to subtract the accumulator from the operand
OpLoop_SubSwapped(sym, x, numbers, i) ==
  IF i > Len(numbers) THEN Ok(x)
  ELSE LET y == numbers[i] IN
       CASE sym = "-" -> OpLoop(sym, F64Sub(y, x), numbers, i + 1)
         [] sym = "*" -> OpLoop(sym, F64Mul(x, y), numbers, i + 1)
         [] sym = "%" -> OpLoop(sym, F64Rem(x, y), numbers, i + 1)
         [] sym = "/" ->
              IF IsZero(y)
              THEN Lerr_new("DivZero", "You cannot divide {}, or any number, by 0", <<x>>)
              ELSE OpLoop(sym, F64Div(x, y), numbers, i + 1)
         [] OTHER -> OpLoop(sym, F64Add(x, y), numbers, i + 1)

OpLoop(sym, x, numbers, i) ==
  IF i > Len(numbers) THEN Ok(x)
  ELSE LET y == numbers[i] IN
       CASE sym = "-" -> OpLoop(sym, F64Sub(x, y), numbers, i + 1)
         [] sym = "*" -> OpLoop(sym, F64Mul(x, y), numbers, i + 1)
         [] sym = "%" -> OpLoop(sym, F64Rem(x, y), numbers, i + 1)
         [] sym = "/" ->
              IF IsZero(y)
              THEN Lerr_new("DivZero", "You cannot divide {}, or any number, by 0", <<x>>)
              ELSE OpLoop(sym, F64Div(x, y), numbers, i + 1)
         [] OTHER -> OpLoop(sym, F64Add(x, y), numbers, i + 1)

builtin_op(sym, operands) ==
  IF ~AllSome(ToNums(operands))
  THEN Lerr_new("BadNum", "Function {} can operate only on numbers", <<Sym(sym)>>)
  ELSE LET numbers == Unwrapped(ToNums(operands)) IN
       IF Len(numbers) = 1
       THEN IF sym = "-" THEN Ok(F64Neg(numbers[1]))
            ELSE IF sym = "!"
                 THEN Ok(IF IsZero(numbers[1]) THEN Num(1) ELSE Num(0))
                 ELSE Ok(numbers[1])
       ELSE IF Len(numbers) = 0
            THEN Panic("index out of bounds: numbers[0]")
            ELSE OpLoop(sym, numbers[1], numbers, 2)

builtin_ord(sym, operands) ==
  IF Len(operands) # 2
  THEN Lerr_new("IncorrectParamCount", "Function {} needed 2 args but was given {}",
                <<Sym(sym), Num(Len(operands))>>)
  ELSE IF ~AllSome(ToNums(operands))
  THEN Lerr_new("BadNum", "Function {} can operate only on numbers", <<Sym(sym)>>)
  ELSE LET x == operands[1]
           y == operands[2]
           a == ~IsZero(x)
           b == ~IsZero(y)
           r == CASE sym = ">" -> F64Lt(y, x)
                  [] sym = "<" -> F64Lt(x, y)
                  [] sym = ">=" -> F64Lt(y, x) \/ F64Eq(x, y)
                  [] sym = "<=" -> F64Lt(x, y) \/ F64Eq(x, y)
                  [] sym = "&&" -> a /\ b
                  [] sym = "||" -> a \/ b
                  [] OTHER -> FALSE
       IN  IF r THEN Ok(Num(1)) ELSE Ok(Num(0))

builtin_eq(operands) ==
  IF Len(operands) # 2
  THEN Lerr_new("IncorrectParamCount", "Function eq needed 2 arg but was given {}",
                <<Num(Len(operands))>>)
  ELSE IF LvalEq(operands[1], operands[2]) THEN Ok(Num(1)) ELSE Ok(Num(0))

builtin_ne(operands) ==
  IF Len(operands) # 2
  THEN Lerr_new("IncorrectParamCount", "Function eq needed 2 arg but was given {}",
                <<Num(Len(operands))>>)
  ELSE IF LvalEq(operands[1], operands[2]) THEN Ok(Num(0)) ELSE Ok(Num(1))

builtin_err(operands) ==
  IF Len(operands) = 0 THEN Panic("index out of bounds: operands[0]")
  ELSE IF ~to_str(operands[1]).some
  THEN Lerr_new("WrongType", "Function die needed qexpr for Else but was given {:?}",
                <<operands[1]>>)
  ELSE Lerr_new("Interrupt", "{}", <<operands[1]>>)

builtin_head(operands) ==
  IF Len(operands) # 1
  THEN Lerr_new("IncorrectParamCount", "Function head needed 1 arg but was given {}",
                <<Num(Len(operands))>>)
  ELSE LET arg == operands[1] IN
       IF arg.t = "Qexpr"
       THEN IF Len(arg.c) = 0
            THEN Lerr_new("EmptyList", "Function head was given empty list", <<>>)
            ELSE Ok(arg.c[1])
       ELSE Lerr_new("WrongType", "Function head needed Qexpr but was given {:?}",
                     <<arg>>)

\* builtin_tail, were it to keep all but the last item
builtin_tail_DropsLast(operands) ==
  IF Len(operands) # 1
  THEN Lerr_new("IncorrectParamCount", "Function tail needed 1 arg but was given {}",
                <<Num(Len(operands))>>)
  ELSE LET arg == operands[1] IN
       IF arg.t = "Qexpr"
       THEN IF Len(arg.c) = 0
            THEN Lerr_new("EmptyList", "Function tail was given empty list", <<>>)
            ELSE Ok(Qexpr(SubSeq(arg.c, 1, Len(arg.c) - 1)))
       ELSE Lerr_new("WrongType", "Function tail needed Qexpr but was given {:?}",
                     <<arg>>)

builtin_tail(operands) ==
  IF Len(operands) # 1
  THEN Lerr_new("IncorrectParamCount", "Function tail needed 1 arg but was given {}",
                <<Num(Len(operands))>>)
  ELSE LET arg == operands[1] IN
       IF arg.t = "Qexpr"
       THEN IF Len(arg.c) = 0
            THEN Lerr_new("EmptyList", "Function tail was given empty list", <<>>)
            ELSE Ok(Qexpr(Tail(arg.c)))
       ELSE Lerr_new("WrongType", "Function tail needed Qexpr but was given {:?}",
                     <<arg>>)

builtin_list(operands) == Ok(Qexpr(operands))

\* The nested for loops of builtin_join: every item of every qexpr, in order.
RECURSIVE Flatten(_)
Flatten(vecs) == IF vecs = <<>> THEN <<>> ELSE Head(vecs) \o Flatten(Tail(vecs))

\* builtin_join, were it to append the operands to the list instead of
\* their items
builtin_join_Nests(operands) ==
  IF Len(operands) < 2
  THEN Lerr_new("IncorrectParamCount", "Function join needed 2 arg but was given {}",
                <<Num(Len(operands))>>)
  ELSE IF ~AllSome(ToQexprs(operands))
  THEN Lerr_new("WrongType", "Function join needed Qexpr but was given", <<>>)
  ELSE Ok(Qexpr(operands))

builtin_join(operands) ==
  IF Len(operands) < 2
  THEN Lerr_new("IncorrectParamCount", "Function join needed 2 arg but was given {}",
                <<Num(Len(operands))>>)
  ELSE IF ~AllSome(ToQexprs(operands))
  THEN Lerr_new("WrongType", "Function join needed Qexpr but was given", <<>>)
  ELSE Ok(Qexpr(Flatten(Unwrapped(ToQexprs(operands)))))

builtin_concat(operands) ==
  IF Len(operands) < 1
  THEN Lerr_new("IncorrectParamCount",
                "Function concat needed >= 1 arg but was given {}", <<Num(Len(operands))>>)
  ELSE IF ~AllSome(ToStrs(operands))
  THEN Lerr_new("WrongType", "Function concat needed Strings but was given", <<>>)
  ELSE Ok(Str(Flatten(Unwrapped(ToStrs(operands)))))

(***************************************************************************)
(* Display and Debug of Lval (the two impls write the same text), as a     *)
(* sequence of characters.                                                 *)
(***************************************************************************)
Digit(n) == <<"0", "1", "2", "3", "4", "5", "6", "7", "8", "9">>[n + 1]

\* The decimal digits of a natural number.
RECURSIVE NatChars(_)
NatChars(n) ==
  IF n < 10 THEN <<Digit(n)>> ELSE NatChars(n \div 10) \o <<Digit(n % 10)>>

\* The digits of r/d (r < d) after the decimal point, at most `left` of them.
RECURSIVE FracChars(_, _, _)
FracChars(r, d, left) ==
  IF r = 0 \/ left = 0 THEN <<>>
  ELSE <<Digit((r * 10) \div d)>> \o FracChars((r * 10) % d, d, left - 1)

\* The digits an f64 carries.
F64Digits == 17

\* write!(f, "{}", n) for an f64: no exponent, no point for a whole number.
FmtF64(x) ==
  IF IsNaN(x) THEN <<"N", "a", "N">>
  ELSE LET a == Abs(x.n)
           whole == a \div x.d
           r == a % x.d
       IN  (IF x.n < 0 THEN <<"-">> ELSE <<>>)
             \o NatChars(whole)
             \o (IF r = 0 THEN <<>> ELSE <<".">> \o FracChars(r, x.d, F64Digits))

\* The characters parse_symbol accepts (its one_of).
SymbolChars ==
  {"_", "+", "\\", ":", "-", "*", "/", "=", "<", ">", "|", "!", "&",
   "%", "a", "b", "c", "d", "e", "f", "g", "h", "i", "j", "k", "l", "m",
   "n", "o", "p", "q", "r", "s", "t", "u", "v", "w", "x", "y", "z", "A",
   "B", "C", "D", "E", "F", "G", "H", "I", "J", "K", "L", "M", "N", "O",
   "P", "Q", "R", "S", "T", "U", "V", "W", "X", "Y", "Z", "1", "2", "3",
   "4", "5", "6", "7", "8", "9", "0"}

\* o.join(""): the String made of the characters
RECURSIVE Implode(_)
Implode(cs) == IF cs = <<>> THEN "" ELSE Head(cs) \o Implode(Tail(cs))

\* The characters source texts are written in here.
SrcChars == {"(", ")", "[", "]", " ", "\"", "a", "1", "-"}

\* The characters of a name.
Chars(s) ==
  CASE s = "head" -> <<"h", "e", "a", "d">>
    [] s = "tail" -> <<"t", "a", "i", "l">>
    [] s = "list" -> <<"l", "i", "s", "t">>
    [] s = "eval" -> <<"e", "v", "a", "l">>
    [] s = "join" -> <<"j", "o", "i", "n">>
    [] s = "concat" -> <<"c", "o", "n", "c", "a", "t">>
    [] s = "def" -> <<"d", "e", "f">>
    [] s = "if" -> <<"i", "f">>
    [] s = "echo" -> <<"e", "c", "h", "o">>
    [] s = "rand" -> <<"r", "a", "n", "d">>
    [] s = "die" -> <<"d", "i", "e">>
    [] s = ">=" -> <<">", "=">>
    [] s = "<=" -> <<"<", "=">>
    [] s = "==" -> <<"=", "=">>
    [] s = "!=" -> <<"!", "=">>
    [] s = "&&" -> <<"&", "&">>
    [] s = "||" -> <<"|", "|">>
    [] OTHER ->
         IF Len(s) <= 1 THEN <<s>>
         ELSE CHOOSE cs \in [1..Len(s) -> SrcChars \cap SymbolChars] : Implode(cs) = s

\* join(" ") of the pieces
RECURSIVE JoinSpace(_)
JoinSpace(pieces) ==
  IF pieces = <<>> THEN <<>>
  ELSE IF Len(pieces) = 1 THEN pieces[1]
  ELSE pieces[1] \o <<" ">> \o JoinSpace(Tail(pieces))

RECURSIVE FmtLval(_)
FmtLval(v) ==
  CASE v.t = "Sym" -> Chars(v.s)
    [] v.t = "Num" -> FmtF64(v)
    [] v.t = "Sexpr" ->
         <<"(", " ">> \o JoinSpace([i \in 1..Len(v.c) |-> FmtLval(v.c[i])]) \o <<" ", ")">>
    [] v.t = "Qexpr" ->
         <<"[", " ">> \o JoinSpace([i \in 1..Len(v.c) |-> FmtLval(v.c[i])]) \o <<" ", "]">>
    [] v.t = "Fun" -> Chars(v.name)
    [] v.t = "Str" -> v.chars
    [] v.t = "Lambda" ->
         <<"(", "\\", " ", "[">> \o JoinSpace([i \in 1..Len(v.args) |-> Chars(v.args[i])])
           \o <<"]", " ", "[">> \o JoinSpace([i \in 1..Len(v.body) |-> FmtLval(v.body[i])])
           \o <<"]", ")">>

builtin_echo(operands) ==
  IF Len(operands) # 1
  THEN Lerr_new("IncorrectParamCount", "Function echo needed 1 arg but was given {}",
                <<Num(Len(operands))>>)
  ELSE Ok(Str(<<"\"">> \o FmtLval(operands[1]) \o <<"\"">>))

\* The sub-second nanoseconds the system clock can show.
NanosPerSec == 1000000000

ClockReadings == {12345, NanosPerSec - 1}

\* builtin_rand, nanos the reading of the clock
builtin_rand(operands, nanos) ==
  IF Len(operands) # 0
  THEN Lerr_new("IncorrectParamCount", "Function if needed 0 arg but was given {}",
                <<Num(Len(operands))>>)
  ELSE Ok(Num(nanos))

(***************************************************************************)
(* The builtins that read or change the environment, without evaluating.   *)
(***************************************************************************)
\* The for loop of builtin_assign: names[i] takes operands[i + 1].
RECURSIVE AssignLoop(_, _, _, _, _)
\* The loop, were `def` to assign as `=` does
AssignLoop_DefIsLocal(sym, e, names, operands, i) ==
  IF i > Len(names) THEN e
  ELSE AssignLoop(sym, insert(e, names[i], operands[i + 1]), names, operands, i + 1)

AssignLoop(sym, e, names, operands, i) ==
  IF i > Len(names) THEN e
  ELSE IF sym = "def"
       THEN AssignLoop(sym, insert_last(e, names[i], operands[i + 1]),
                       names, operands, i + 1)
       ELSE AssignLoop(sym, insert(e, names[i], operands[i + 1]),
                       names, operands, i + 1)

\* builtin_assign, were it to bind the names that have a value before it
\* finds that the counts differ
builtin_assign_BindsThenCounts(sym, e, operands) ==
  IF Len(operands) < 2
  THEN [env |-> e,
        res |-> Lerr_new("IncorrectParamCount",
                         "Function def needed 2 args but was given {}",
                         <<Num(Len(operands))>>)]
  ELSE IF ~to_qexpr(operands[1]).some
  THEN [env |-> e,
        res |-> Lerr_new("WrongType", "Function def needed Qexpr but was given {:?}",
                         <<operands[1]>>)]
  ELSE IF ~AllSome(ToSyms(to_qexpr(operands[1]).v))
  THEN [env |-> e,
        res |-> Lerr_new("WrongType",
                         "Function def needed a param list of all Symbols", <<>>)]
  ELSE LET args == Unwrapped(ToSyms(to_qexpr(operands[1]).v))
           m == IF Len(args) < Len(operands) - 1 THEN Len(args) ELSE Len(operands) - 1
       IN  IF Len(args) # Len(operands) - 1
           THEN [env |-> AssignLoop(sym, e, SubSeq(args, 1, m), operands, 1),
                 res |-> Lerr_new("IncorrectParamCount",
                                  "Function def needed to assign {} values but was passed {}",
                                  <<Num(Len(args)), Num(Len(operands) - 1)>>)]
           ELSE [env |-> AssignLoop(sym, e, args, operands, 1),
                 res |-> Ok(Str(<<>>))]

\* builtin_assign: the environment left and the result
builtin_assign(sym, e, operands) ==
  IF Len(operands) < 2
  THEN [env |-> e,
        res |-> Lerr_new("IncorrectParamCount",
                         "Function def needed 2 args but was given {}",
                         <<Num(Len(operands))>>)]
  ELSE IF ~to_qexpr(operands[1]).some
  THEN [env |-> e,
        res |-> Lerr_new("WrongType", "Function def needed Qexpr but was given {:?}",
                         <<operands[1]>>)]
  ELSE IF ~AllSome(ToSyms(to_qexpr(operands[1]).v))
  THEN [env |-> e,
        res |-> Lerr_new("WrongType",
                         "Function def needed a param list of all Symbols", <<>>)]
  ELSE LET args == Unwrapped(ToSyms(to_qexpr(operands[1]).v)) IN
       IF Len(args) # Len(operands) - 1
       THEN [env |-> e,
             res |-> Lerr_new("IncorrectParamCount",
                              "Function def needed to assign {} values but was passed {}",
                              <<Num(Len(args)), Num(Len(operands) - 1)>>)]
       ELSE [env |-> AssignLoop(sym, e, args, operands, 1),
             res |-> Ok(Str(<<>>))]

builtin_def(e, operands) == builtin_assign("def", e, operands)

builtin_var(e, operands) == builtin_assign("=", e, operands)

\* builtin_lambda, were it to capture no frame contents at all
builtin_lambda_CapturesNothing(e, operands) ==
  IF Len(operands) # 2
  THEN Lerr_new("IncorrectParamCount", "Function \\ needed 2 arg but was given {}",
                <<Num(Len(operands))>>)
  ELSE IF ~AllSome(ToQexprs(operands))
  THEN Lerr_new("WrongType",
                "Function \\ needed a Qexpr for arguments and a Qexpr for body", <<>>)
  ELSE LET results == Unwrapped(ToQexprs(operands)) IN
       IF ~AllSome(ToSyms(results[1]))
       THEN Lerr_new("WrongType", "Function \\ needed a param list of all Symbols", <<>>)
       ELSE IF ~peek(e).some THEN Panic("unwrap on None: env.peek()")
            ELSE Ok(Llambda_new(Unwrapped(ToSyms(results[1])), results[2], Lookup_new))

\* builtin_lambda, were it to capture every binding visible through the chain
builtin_lambda_CapturesVisible(e, operands) ==
  IF Len(operands) # 2
  THEN Lerr_new("IncorrectParamCount", "Function \\ needed 2 arg but was given {}",
                <<Num(Len(operands))>>)
  ELSE IF ~AllSome(ToQexprs(operands))
  THEN Lerr_new("WrongType",
                "Function \\ needed a Qexpr for arguments and a Qexpr for body", <<>>)
  ELSE LET results == Unwrapped(ToQexprs(operands)) IN
       IF ~AllSome(ToSyms(results[1]))
       THEN Lerr_new("WrongType", "Function \\ needed a param list of all Symbols", <<>>)
       ELSE IF ~peek(e).some THEN Panic("unwrap on None: env.peek()")
            ELSE Ok(Llambda_new(Unwrapped(ToSyms(results[1])), results[2],
                                [k \in UNION {DOMAIN e[i] : i \in 1..Len(e)} |->
                                   get(e, k).v]))

builtin_lambda(e, operands) ==
  IF Len(operands) # 2
  THEN Lerr_new("IncorrectParamCount", "Function \\ needed 2 arg but was given {}",
                <<Num(Len(operands))>>)
  ELSE IF ~AllSome(ToQexprs(operands))
  THEN Lerr_new("WrongType",
                "Function \\ needed a Qexpr for arguments and a Qexpr for body", <<>>)
  ELSE LET results == Unwrapped(ToQexprs(operands)) IN
       IF ~AllSome(ToSyms(results[1]))
       THEN Lerr_new("WrongType", "Function \\ needed a param list of all Symbols", <<>>)
       ELSE IF ~peek(e).some THEN Panic("unwrap on None: env.peek()")
            ELSE Ok(Llambda_new(Unwrapped(ToSyms(results[1])), results[2], peek(e).v))

\* The names init_builtins registers, each bound to its Fun.
BuiltinNames ==
  {"!", "+", "-", "*", "/", "%", "head", "tail", "list", "eval", "join", "concat",
   "\\", "def", "=", "if", "echo", "rand", "die", "<", ">", ">=", "<=", "==", "!=",
   "&&", "||"}

\* add_builtin
add_builtin(e, sym) == insert(e, sym, Fun(sym))

RECURSIVE AddAll(_, _)
AddAll(e, names) ==
  IF names = {} THEN e
  ELSE LET n == CHOOSE x \in names : TRUE
       IN  AddAll(add_builtin(e, n), names \ {n})

init_builtins(e) == AddAll(e, BuiltinNames)

init_env == init_builtins(push(Lenv_new, Lookup_new))

(***************************************************************************)
(* The evaluator.  An evaluation threads the environment (&mut Lenv) and a *)
(* history of what it did; it returns the environment left, the history    *)
(* and the Result.                                                         *)
(***************************************************************************)
St(e, log) == [env |-> e, log |-> log]

Ret(st, res) == [env |-> st.env, log |-> st.log, res |-> res]

Logged(st, ev) == [env |-> st.env, log |-> Append(st.log, ev)]

EvEval(expr) == [e |-> "eval", expr |-> expr]

EvApply(f, args) == [e |-> "apply", f |-> f, args |-> args]

EvPush(frame) == [e |-> "push", frame |-> frame]

EvPop == [e |-> "pop"]

eval_symbol(e, s) ==
  IF get(e, s).some THEN Ok(get(e, s).v)
  ELSE Lerr_new("UnboundSymbol", "{:?} has not been defined", <<Sym(s)>>)

\* The loop of call that loads the arguments: the function with its
\* parameters consumed and its environment extended, or the error.
RECURSIVE BindLoop(_, _, _, _)
\* The loop, were the rest parameter to miss the argument at hand
BindLoop_RestDropsFirst(func, args, total, given) ==
  IF Len(args) = 0 THEN [k |-> "bound", func |-> func]
  ELSE IF Len(func.args) = 0
  THEN Lerr_new("IncorrectParamCount", "Function needed {} arg(s) but was given {}",
                <<Num(total), Num(given)>>)
  ELSE LET sym == func.args[1]
           rest == Tail(func.args)
       IN  IF sym = ":"
           THEN IF Len(rest) # 1
                THEN Lerr_new("IncorrectParamCount",
                              ": operator needs to be followed by arg", <<>>)
                ELSE [k |-> "bound",
                      func |-> Lambda(Tail(rest), func.body,
                                      insert(func.lenv, rest[1], Qexpr(Tail(args))))]
           ELSE BindLoop(Lambda(rest, func.body, insert(func.lenv, sym, args[1])),
                         Tail(args), total, given)

\* The loop, were it to drop the arguments left over when the parameters
\* run out
BindLoop_IgnoresExtra(func, args, total, given) ==
  IF Len(args) = 0 \/ Len(func.args) = 0 THEN [k |-> "bound", func |-> func]
  ELSE LET sym == func.args[1]
           rest == Tail(func.args)
       IN  IF sym = ":"
           THEN IF Len(rest) # 1
                THEN Lerr_new("IncorrectParamCount",
                              ": operator needs to be followed by arg", <<>>)
                ELSE [k |-> "bound",
                      func |-> Lambda(Tail(rest), func.body,
                                      insert(func.lenv, rest[1], Qexpr(args)))]
           ELSE BindLoop(Lambda(rest, func.body, insert(func.lenv, sym, args[1])),
                         Tail(args), total, given)

\* The loop, were `: rest` bound to the empty list when no argument is left
BindLoop_BindsEmptyRest(func, args, total, given) ==
  IF Len(args) = 0
  THEN IF Len(func.args) = 2 /\ func.args[1] = ":"
       THEN [k |-> "bound",
             func |-> Lambda(<<>>, func.body, insert(func.lenv, func.args[2], Qexpr(<<>>)))]
       ELSE [k |-> "bound", func |-> func]
  ELSE IF Len(func.args) = 0
  THEN Lerr_new("IncorrectParamCount", "Function needed {} arg(s) but was given {}",
                <<Num(total), Num(given)>>)
  ELSE LET sym == func.args[1]
           rest == Tail(func.args)
       IN  IF sym = ":"
           THEN IF Len(rest) # 1
                THEN Lerr_new("IncorrectParamCount",
                              ": operator needs to be followed by arg", <<>>)
                ELSE [k |-> "bound",
                      func |-> Lambda(Tail(rest), func.body,
                                      insert(func.lenv, rest[1], Qexpr(args)))]
           ELSE BindLoop(Lambda(rest, func.body, insert(func.lenv, sym, args[1])),
                         Tail(args), total, given)

BindLoop(func, args, total, given) ==
  IF Len(args) = 0 THEN [k |-> "bound", func |-> func]
  ELSE IF Len(func.args) = 0
  THEN Lerr_new("IncorrectParamCount", "Function needed {} arg(s) but was given {}",
                <<Num(total), Num(given)>>)
  ELSE LET sym == func.args[1]
           rest == Tail(func.args)
       IN  IF sym = ":"
           THEN IF Len(rest) # 1
                THEN Lerr_new("IncorrectParamCount",
                              ": operator needs to be followed by arg", <<>>)
                ELSE [k |-> "bound",
                      func |-> Lambda(Tail(rest), func.body,
                                      insert(func.lenv, rest[1], Qexpr(args)))]
           ELSE BindLoop(Lambda(rest, func.body, insert(func.lenv, sym, args[1])),
                         Tail(args), total, given)

RECURSIVE eval(_, _, _)
RECURSIVE eval_sexpression(_, _, _)
RECURSIVE EvalEach(_, _, _, _, _)
RECURSIVE call(_, _, _, _)
RECURSIVE fun(_, _, _, _)
RECURSIVE builtin_if(_, _, _)
RECURSIVE builtin_eval(_, _, _)

eval(st, expr, d) ==
  IF d > MaxEvalDepth THEN Ret(st, Panic("stack overflow"))
  ELSE LET st1 == Logged(st, EvEval(expr)) IN
       CASE expr.t = "Sym" -> Ret(st1, eval_symbol(st1.env, expr.s))
         [] expr.t = "Sexpr" -> eval_sexpression(st1, expr.c, d + 1)
         [] OTHER -> Ret(st1, Ok(expr))

\* The children, were all of them evaluated before the first error is returned
EvalEach_KeepsGoing(st, sexpr, i, results, d) ==
  IF i > Len(sexpr) THEN Ret(st, Ok(results))
  ELSE LET r == eval(st, sexpr[i], d) IN
       IF r.res.k = "panic" THEN r
       ELSE IF r.res.k = "err"
       THEN LET more == EvalEach(St(r.env, r.log), sexpr, i + 1, results, d) IN
            IF more.res.k = "panic" THEN more
            ELSE Ret(St(more.env, more.log), r.res)
       ELSE EvalEach(St(r.env, r.log), sexpr, i + 1, Append(results, r.res.v), d)

\* The children, were each evaluated over the environment of entry
EvalEach_OwnCopies(st, sexpr, i, results, d) ==
  IF i > Len(sexpr) THEN Ret(st, Ok(results))
  ELSE LET r == eval(st, sexpr[i], d) IN
       IF r.res.k = "panic" THEN r
       ELSE IF r.res.k # "ok" THEN Ret(St(st.env, r.log), r.res)
       ELSE EvalEach(St(st.env, r.log), sexpr, i + 1, Append(results, r.res.v), d)

\* sexpr.into_iter().map(|expr| eval(env, expr)).collect::<Result<Vec, Lerr>>():
\* the children in order, up to the first that does not return Ok.
EvalEach(st, sexpr, i, results, d) ==
  IF i > Len(sexpr) THEN Ret(st, Ok(results))
  ELSE LET r == eval(st, sexpr[i], d) IN
       IF r.res.k # "ok" THEN r
       ELSE EvalEach(St(r.env, r.log), sexpr, i + 1, Append(results, r.res.v), d)

\* eval_sexpression, were a single result returned as it is
eval_sexpression_SoleAsIs(st, sexpr, d) ==
  LET r == EvalEach(st, sexpr, 1, <<>>, d) IN
  IF r.res.k # "ok" THEN r
  ELSE LET results == r.res.v
           st1 == St(r.env, r.log)
       IN  IF Len(results) = 0 THEN Ret(st1, Ok(Sexpr(results)))
           ELSE IF Len(results) = 1 THEN Ret(st1, Ok(results[1]))
           ELSE LET operands == Tail(results)
                    op == results[1]
                IN  CASE op.t = "Fun" ->
                           fun(Logged(st1, EvApply(op, operands)), op.name,
                               operands, d)
                      [] op.t = "Lambda" ->
                           call(Logged(st1, EvApply(op, operands)), op,
                                operands, d)
                      [] OTHER ->
                           Ret(st1, Lerr_new("BadOp", "{:?} is not a valid operator",
                                             <<op>>))

eval_sexpression(st, sexpr, d) ==
  LET r == EvalEach(st, sexpr, 1, <<>>, d) IN
  IF r.res.k # "ok" THEN r
  ELSE LET results == r.res.v
           st1 == St(r.env, r.log)
       IN  IF Len(results) = 0 THEN Ret(st1, Ok(Sexpr(results)))
           ELSE IF Len(results) = 1
           THEN LET op == results[1] IN
                CASE op.t = "Fun" -> fun(Logged(st1, EvApply(op, <<>>)), op.name, <<>>, d)
                  [] op.t = "Lambda" -> call(Logged(st1, EvApply(op, <<>>)), op, <<>>, d)
                  [] OTHER -> Ret(st1, Ok(op))
           ELSE LET operands == Tail(results)
                    op == results[1]
                IN  CASE op.t = "Fun" ->
                           fun(Logged(st1, EvApply(op, operands)), op.name,
                               operands, d)
                      [] op.t = "Lambda" ->
                           call(Logged(st1, EvApply(op, operands)), op,
                                operands, d)
                      [] OTHER ->
                           Ret(st1, Lerr_new("BadOp", "{:?} is not a valid operator",
                                             <<op>>))

\* call, were the body's error returned before the pop
call_NoPopOnError(st, func, args, d) ==
  LET b == BindLoop(func, args, Len(func.args), Len(args)) IN
  IF b.k # "bound" THEN Ret(st, b)
  ELSE IF Len(b.func.args) = 0
  THEN IF ~peek(b.func.lenv).some
       THEN Ret(st, Panic("unwrap on None: func.env.peek()"))
       ELSE LET frame == peek(b.func.lenv).v
                st1 == Logged(St(push(st.env, frame), st.log), EvPush(frame))
                r == eval(st1, Sexpr(b.func.body), d)
            IN  IF r.res.k # "ok" THEN r
                ELSE Ret(Logged(St(pop(r.env).env, r.log), EvPop), r.res)
  ELSE Ret(st, Ok(b.func))

\* call, were a partial application to keep the parameters left but not the
\* arguments bound
call_PartialForgets(st, func, args, d) ==
  LET b == BindLoop(func, args, Len(func.args), Len(args)) IN
  IF b.k # "bound" THEN Ret(st, b)
  ELSE IF Len(b.func.args) = 0
  THEN IF ~peek(b.func.lenv).some
       THEN Ret(st, Panic("unwrap on None: func.env.peek()"))
       ELSE LET frame == peek(b.func.lenv).v
                st1 == Logged(St(push(st.env, frame), st.log), EvPush(frame))
                r == eval(st1, Sexpr(b.func.body), d)
            IN  IF r.res.k = "panic" THEN r
                ELSE Ret(Logged(St(pop(r.env).env, r.log), EvPop), r.res)
  ELSE Ret(st, Ok(Lambda(b.func.args, func.body, func.lenv)))

\* call, were the body evaluated over the lambda's own chain alone
call_OwnChainOnly(st, func, args, d) ==
  LET b == BindLoop(func, args, Len(func.args), Len(args)) IN
  IF b.k # "bound" THEN Ret(st, b)
  ELSE IF Len(b.func.args) = 0
  THEN IF ~peek(b.func.lenv).some
       THEN Ret(st, Panic("unwrap on None: func.env.peek()"))
       ELSE LET frame == peek(b.func.lenv).v
                st1 == Logged(St(b.func.lenv, st.log), EvPush(frame))
                r == eval(st1, Sexpr(b.func.body), d)
            IN  IF r.res.k = "panic" THEN r
                ELSE Ret(Logged(St(st.env, r.log), EvPop), r.res)
  ELSE Ret(st, Ok(b.func))

\* call, were the arguments bound in the lambda that the environment holds
call_BindsInPlace(st, func, args, d) ==
  LET b == BindLoop(func, args, Len(func.args), Len(args)) IN
  IF b.k # "bound" THEN Ret(st, b)
  ELSE LET shared == [i \in 1..Len(st.env) |->
                        [k \in DOMAIN st.env[i] |->
                           IF st.env[i][k] = func THEN b.func ELSE st.env[i][k]]]
           st0 == St(shared, st.log)
       IN  IF Len(b.func.args) = 0
           THEN IF ~peek(b.func.lenv).some
                THEN Ret(st0, Panic("unwrap on None: func.env.peek()"))
                ELSE LET frame == peek(b.func.lenv).v
                         st1 == Logged(St(push(st0.env, frame), st0.log), EvPush(frame))
                         r == eval(st1, Sexpr(b.func.body), d)
                     IN  IF r.res.k = "panic" THEN r
                         ELSE Ret(Logged(St(pop(r.env).env, r.log), EvPop), r.res)
           ELSE Ret(st0, Ok(b.func))

call(st, func, args, d) ==
  LET b == BindLoop(func, args, Len(func.args), Len(args)) IN
  IF b.k # "bound" THEN Ret(st, b)
  ELSE IF Len(b.func.args) = 0
  THEN IF ~peek(b.func.lenv).some
       THEN Ret(st, Panic("unwrap on None: func.env.peek()"))
       ELSE LET frame == peek(b.func.lenv).v
                st1 == Logged(St(push(st.env, frame), st.log), EvPush(frame))
                r == eval(st1, Sexpr(b.func.body), d)
            IN  IF r.res.k = "panic" THEN r
                ELSE Ret(Logged(St(pop(r.env).env, r.log), EvPop), r.res)
  ELSE Ret(st, Ok(b.func))

builtin_if(st, operands, d) ==
  IF Len(operands) # 3
  THEN Ret(st, Lerr_new("IncorrectParamCount",
                        "Function if needed 3 arg but was given {}",
                        <<Num(Len(operands))>>))
  ELSE IF ~to_num(operands[1]).some
  THEN Ret(st, Lerr_new("WrongType",
                        "Function if needed conditional but was given {:?}",
                        <<operands[1]>>))
  ELSE IF ~to_qexpr(operands[2]).some
  THEN Ret(st, Lerr_new("WrongType",
                        "Function if needed qexpr for Then but was given {:?}",
                        <<operands[2]>>))
  ELSE IF ~to_qexpr(operands[3]).some
  THEN Ret(st, Lerr_new("WrongType",
                        "Function if needed qexpr for Else but was given {:?}",
                        <<operands[3]>>))
  ELSE IF IsZero(operands[1])
       THEN eval(st, Sexpr(operands[3].c), d)
       ELSE eval(st, Sexpr(operands[2].c), d)

builtin_eval(st, operands, d) ==
  IF Len(operands) # 1
  THEN Ret(st, Lerr_new("IncorrectParamCount",
                        "Function eval needed 1 arg but was given {}",
                        <<Num(Len(operands))>>))
  ELSE LET arg == operands[1] IN
       IF arg.t = "Qexpr" THEN eval(st, Sexpr(arg.c), d)
       ELSE eval(st, arg, d)

\* The call through the function pointer a Fun holds.
fun(st, name, operands, d) ==
  CASE name \in {"!", "+", "-", "*", "/", "%"} -> Ret(st, builtin_op(name, operands))
    [] name \in {"<", ">", ">=", "<=", "&&", "||"} -> Ret(st, builtin_ord(name, operands))
    [] name = "==" -> Ret(st, builtin_eq(operands))
    [] name = "!=" -> Ret(st, builtin_ne(operands))
    [] name = "head" -> Ret(st, builtin_head(operands))
    [] name = "tail" -> Ret(st, builtin_tail(operands))
    [] name = "list" -> Ret(st, builtin_list(operands))
    [] name = "join" -> Ret(st, builtin_join(operands))
    [] name = "concat" -> Ret(st, builtin_concat(operands))
    [] name = "die" -> Ret(st, builtin_err(operands))
    [] name = "\\" -> Ret(st, builtin_lambda(st.env, operands))
    [] name = "def" ->
         LET a == builtin_def(st.env, operands) IN Ret(St(a.env, st.log), a.res)
    [] name = "=" ->
         LET a == builtin_var(st.env, operands) IN Ret(St(a.env, st.log), a.res)
    [] name = "if" -> builtin_if(st, operands, d)
    [] name = "eval" -> builtin_eval(st, operands, d)
    [] name = "echo" -> Ret(st, builtin_echo(operands))
    [] name = "rand" ->
         \* the clock has moved on by the steps the evaluation took so far
         Ret(st, builtin_rand(operands, (clock + Len(st.log)) % NanosPerSec))

(***************************************************************************)
(* The environment under a driver that uses the Lenv operations, the       *)
(* definition builtins and symbol evaluation directly, as the unit tests   *)
(* of env.rs, builtin.rs and eval.rs do.  `last` records the operation     *)
(* just done, its inputs, the environment before it (pre) and what it      *)
(* returned.                                                               *)
(***************************************************************************)
Keys == {"a", "b"}

Vals == {Num(1), Num(2)}

InitEnv ==
  /\ env = Lenv_new
  /\ last = [op |-> "new"]
  /\ pc = "read"
  /\ steps = 0
  /\ clock = 0

DoPush ==
  /\ Len(env) < MaxFrames
  /\ env' = push(env, Lookup_new)
  /\ last' = [op |-> "push", pre |-> env]
  /\ UNCHANGED <<pc, steps, clock>>

DoPop ==
  /\ env' = pop(env).env
  /\ last' = [op |-> "pop", pre |-> env, ret |-> pop(env).ret]
  /\ UNCHANGED <<pc, steps, clock>>

DoInsert ==
  \E key \in Keys, lval \in Vals :
    /\ env' = insert(env, key, lval)
    /\ last' = [op |-> "insert", key |-> key, val |-> lval, pre |-> env]
    /\ UNCHANGED <<pc, steps, clock>>

DoInsertLast ==
  \E key \in Keys, lval \in Vals :
    /\ env' = insert_last(env, key, lval)
    /\ last' = [op |-> "insert_last", key |-> key, val |-> lval, pre |-> env]
    /\ UNCHANGED <<pc, steps, clock>>

DoGet ==
  \E key \in Keys :
    /\ last' = [op |-> "get", key |-> key, pre |-> env, ret |-> get(env, key)]
    /\ UNCHANGED <<env, pc, steps, clock>>

\* builtin_def / builtin_var on one name and one value
DoAssign ==
  \E sym \in {"def", "="}, key \in Keys, lval \in Vals :
    LET a == builtin_assign(sym, env, <<Qexpr(<<Sym(key)>>), lval>>) IN
    /\ env' = a.env
    /\ last' = [op |-> sym, key |-> key, val |-> lval, pre |-> env, res |-> a.res]
    /\ UNCHANGED <<pc, steps, clock>>

\* Operand lists for `def` and `=`: well formed, too short, with a first
\* operand that is no QExpr or holds a non-Symbol, with more or fewer values
\* than names.
AssignOperandLists ==
  { <<>>,
    <<Qexpr(<<Sym("a")>>)>>,
    <<Num(1), Num(2)>>,
    <<Sexpr(<<Sym("a")>>), Num(2)>>,
    <<Qexpr(<<Num(1)>>), Num(2)>>,
    <<Qexpr(<<Sym("a"), Num(1)>>), Num(1), Num(2)>>,
    <<Qexpr(<<Sym("a"), Sym("b")>>), Num(2)>>,
    <<Qexpr(<<Sym("a")>>), Num(2), Num(1)>>,
    <<Qexpr(<<>>), Num(1)>>,
    <<Qexpr(<<Sym("a"), Sym("b")>>), Num(2), Num(1)>>,
    <<Qexpr(<<Sym("b"), Sym("b")>>), Num(1), Num(2)>> }

\* builtin_def / builtin_var on any of these operand lists
DoAssignAny ==
  \E sym \in {"def", "="}, operands \in AssignOperandLists :
    LET a == builtin_assign(sym, env, operands) IN
    /\ env' = a.env
    /\ last' = [op |-> "assign", sym |-> sym, operands |-> operands, pre |-> env,
                res |-> a.res]
    /\ UNCHANGED <<pc, steps, clock>>

\* eval of a Symbol
DoEvalSymbol ==
  \E key \in Keys :
    LET r == eval(St(env, <<>>), Sym(key), 0) IN
    /\ env' = r.env
    /\ last' = [op |-> "eval_symbol", key |-> key, pre |-> env, res |-> r.res]
    /\ UNCHANGED <<pc, steps, clock>>

NextEnv ==
  \/ DoPush
  \/ DoPop
  \/ DoInsert
  \/ DoInsertLast
  \/ DoGet
  \/ DoAssign
  \/ DoEvalSymbol

SpecEnv == InitEnv /\ [][NextEnv]_vars

\* The same driver, building chains of frames with bindings and calling
\* `def` and `=` on operand lists of any form.
NextAssign ==
  \/ DoPush
  \/ DoInsert
  \/ DoAssignAny

SpecAssign == InitEnv /\ [][NextAssign]_vars

(***************************************************************************)
(* call applied directly to a lambda made by Llambda::new over the         *)
(* innermost frame of init_env(), as the test it_handles_lambdas does.     *)
(***************************************************************************)
\* Longest parameter list and longest argument list drawn.
MaxParams == 3

MaxArgs == 3

ParamNames == {"a", "b", ":"}

SeqsUpTo(S, n) == UNION {[1..m -> S] : m \in 0..n}

ParamLists == SeqsUpTo(ParamNames, MaxParams)

ArgLists == SeqsUpTo({Num(1), Num(2)}, MaxArgs)

Bodies ==
  { <<Sym("list"), Sym("a"), Sym("b")>>,
    <<Sym("-"), Sym("a"), Sym("b")>>,
    <<Sym("b")>> }

InitCall ==
  /\ env = init_env
  /\ last = [op |-> "idle"]
  /\ pc = "read"
  /\ steps = 0
  /\ clock \in ClockReadings

DoCall ==
  /\ pc = "read"
  /\ \E params \in ParamLists, body \in Bodies, args \in ArgLists :
       LET func == Llambda_new(params, body, peek(env).v)
           r == call(St(env, <<>>), func, args, 0)
       IN  /\ env' = r.env
           /\ last' = [op |-> "call", func |-> func, args |-> args, pre |-> env,
                       out |-> r]
           /\ pc' = IF r.res.k = "panic" THEN "crashed" ELSE "print"
  /\ UNCHANGED <<steps, clock>>

\* println!("{:?}", v) and the next turn of the loop
DoPrint ==
  /\ pc = "print"
  /\ pc' = "read"
  /\ last' = [op |-> "idle"]
  /\ clock' \in ClockReadings
  /\ UNCHANGED <<env, steps>>

NextCall ==
  \/ DoCall
  \/ DoPrint

SpecCall == InitCall /\ [][NextCall]_vars

(***************************************************************************)
(* The read-eval-print loop of bin/repl.rs over the environment of         *)
(* init_env(): each turn hands one syntax tree to Lisp::from_ast, which    *)
(* evaluates it in the persistent environment; the result is printed and   *)
(* the loop reads again.  A panic ends the process.                        *)
(***************************************************************************)
S(c) == Sexpr(c)

Q(c) == Qexpr(c)

Y(s) == Sym(s)

N(n) == Num(n)

\* (\ [params] [body])
Lam(params, body) == S(<<Y("\\"), Q(params), Q(body)>>)

\* The syntax trees the loop is given.
\* (def [f] (\ [x y] [- x y]))
DefF ==
  S(<<Y("def"), Q(<<Y("f")>>), Lam(<<Y("x"), Y("y")>>, <<Y("-"), Y("x"), Y("y")>>)>>)

\* (list (f 1) (f 2)): two partial applications of the lambda that f names
TwoPartials == S(<<Y("list"), S(<<Y("f"), N(1)>>), S(<<Y("f"), N(2)>>)>>)

\* (list (sym [key] val) key): a child that binds, then a child that reads
BindThenRead(sym, key, val) ==
  S(<<Y("list"), S(<<Y(sym), Q(<<Y(key)>>), val>>), Y(key)>>)

\* (list (sym [key] val) u): a child that binds, then a child that fails
BindThenFail(sym, key, val) ==
  S(<<Y("list"), S(<<Y(sym), Q(<<Y(key)>>), val>>), Y("u")>>)

Programs ==
  { \* definitions and assignments at the top level
    S(<<Y("def"), Q(<<Y("a")>>), N(1)>>),
    S(<<Y("def"), Q(<<Y("a")>>), N(2)>>),
    S(<<Y("="), Q(<<Y("b")>>), N(2)>>),
    DefF,
    \* bindings made by one child and read by the next, or left by a failure
    BindThenRead("def", "a", N(2)),
    BindThenRead("=", "b", N(1)),
    BindThenFail("def", "a", N(1)),
    BindThenFail("=", "b", N(2)),
    \* definitions and assignments inside a call
    S(<<Lam(<<Y("a")>>, <<Y("list"), S(<<Y("def"), Q(<<Y("a")>>), N(2)>>), Y("a")>>),
        N(1)>>),
    S(<<Lam(<<Y("x")>>, <<Y("list"), S(<<Y("def"), Q(<<Y("a")>>), Y("x")>>), Y("a")>>),
        N(2)>>),
    S(<<Lam(<<Y("x")>>, <<Y("="), Q(<<Y("b")>>), Y("x")>>), N(1)>>),
    S(<<Lam(<<Y("x")>>, <<Y("def"), Q(<<Y("b")>>), Y("x")>>), N(1)>>),
    \* calls: full, nested, failing in the body, partial, with too many arguments
    S(<<Lam(<<Y("x")>>, <<Y("+"), Y("x"), Y("a")>>), N(1)>>),
    S(<<Lam(<<Y("x")>>, <<Lam(<<Y("y")>>, <<Y("-"), Y("x"), Y("y")>>), N(2)>>), N(1)>>),
    S(<<Lam(<<Y("x")>>, <<Lam(<<Y("y")>>, <<Y("/"), Y("x"), Y("y")>>), N(0)>>), N(1)>>),
    S(<<Lam(<<Y("x")>>, <<Y("die"), Str(<<"e">>)>>), N(1)>>),
    S(<<Lam(<<Y("x")>>, <<Y("x")>>), N(1), N(2)>>),
    S(<<Lam(<<Y("x"), Y(":"), Y("r")>>, <<Y("list"), Y("x"), Y("r")>>), N(1), N(2), N(1)>>),
    S(<<Y("f"), N(2), N(1)>>),
    S(<<S(<<Y("f"), N(2)>>), N(1)>>),
    S(<<Y("f"), N(2)>>),
    TwoPartials,
    \* a failing child among the children
    S(<<Y("list"), Y("u"), S(<<Y("def"), Q(<<Y("a")>>), N(2)>>)>>),
    S(<<Y("+"), Y("u"), Y("v")>>),
    S(<<Y("+"), N(1), S(<<Y("/"), N(1), N(0)>>), S(<<Y("="), Q(<<Y("b")>>), N(1)>>)>>),
    S(<<S(<<Y("def"), Q(<<Y("b")>>), N(1)>>), Y("u")>>),
    S(<<N(1), N(2)>>),
    \* a single child
    S(<<N(1)>>),
    S(<<Q(<<N(1), Y("u")>>)>>),
    S(<<Str(<<"e">>)>>),
    S(<<Y("a")>>),
    S(<<Y("f")>>),
    S(<<Y("list")>>),
    S(<<Y("head")>>),
    S(<<Y("+")>>),
    S(<<Y("*")>>),
    S(<<Y("eval"), Q(<<Y("-")>>)>>),
    S(<<Y("eval"), Q(<<Y("list")>>)>>),
    S(<<Lam(<<>>, <<Y("-"), N(2), N(1)>>)>>),
    S(<<Lam(<<Y("x")>>, <<Y("x")>>)>>),
    S(<<Lam(<<>>, <<Y("def"), Q(<<Y("b")>>), N(2)>>)>>),
    S(<<Lam(<<>>, <<Y("+")>>)>>),
    S(<<S(<<S(<<>>)>>)>>),
    S(<<>>) }

Init ==
  /\ env = init_env
  /\ last = [op |-> "idle"]
  /\ pc = "read"
  /\ steps = 0
  /\ clock \in ClockReadings

\* Lisp::from_ast(&mut env, ast) on the line read
DoFromAst ==
  /\ pc = "read"
  /\ steps < MaxSteps
  /\ \E ast \in Programs :
       LET r == eval(St(env, <<>>), ast, 0) IN
       /\ env' = r.env
       /\ last' = [op |-> "from_ast", ast |-> ast, pre |-> env, out |-> r]
       /\ pc' = IF r.res.k = "panic" THEN "crashed" ELSE "print"
  /\ steps' = steps + 1
  /\ UNCHANGED clock

Next ==
  \/ DoFromAst
  \/ DoPrint

Spec == Init /\ [][Next]_vars

(***************************************************************************)
(* The builtins called through their Fun on operand lists in the           *)
(* environment of init_env(), as the unit tests of builtin.rs do; every    *)
(* test starts from a new init_env().                                      *)
(***************************************************************************)
\* Longest operand list handed to any builtin.
MaxOperands == 3
\* Longest list of numbers handed to an arithmetic builtin.
MaxNums == 3
\* Longest QExpr handed to the list builtins.
MaxQLen == 3

\* Operands of every variant.
OperandVals ==
  { Num(0), Num(2), Qexpr(<<>>), Qexpr(<<Sym("a")>>), Str(<<"e">>), Sym("a"),
    Sexpr(<<>>), Fun("+"),
    Llambda_new(<<"x">>, <<Sym("x")>>, Lookup_new) }

OperandLists == SeqsUpTo(OperandVals, MaxOperands)

\* Numbers: zero, whole, negative, fractional.
NumVals == {Num(0), Num(3), Num(-2), NumQ(1, 2)}

NumLists == SeqsUpTo(NumVals, MaxNums)

OpNames == {"+", "-", "*", "/", "%", "!"}

\* Pairs for == and !=: equal and unequal values of every variant, lists
\* with the same items under both brackets, lambdas that differ in one part.
EqVals ==
  { Num(1), Num(2), NaN, Sym("a"), Sym("b"), Str(<<"a">>), Str(<<"a", "b">>),
    Fun("+"), Fun("-"),
    Sexpr(<<>>), Qexpr(<<>>), Sexpr(<<Num(1)>>), Qexpr(<<Num(1)>>),
    Qexpr(<<Num(1), Num(2)>>), Qexpr(<<Qexpr(<<Num(1)>>)>>),
    Llambda_new(<<"x">>, <<Sym("x")>>, Lookup_new),
    Llambda_new(<<"x">>, <<Sym("x")>>, HashMapInsert(Lookup_new, "x", Num(1))),
    Llambda_new(<<"y">>, <<Sym("x")>>, Lookup_new),
    Llambda_new(<<"x">>, <<Sym("y")>>, Lookup_new) }

\* The items of the QExprs handed to head, tail, list and join.
QItems == {Num(1), Sym("a"), Qexpr(<<Num(2)>>)}

QVals == {Qexpr(c) : c \in SeqsUpTo(QItems, MaxQLen)}

\* (join (list (head q)) (tail q))
Reconstruct(q) ==
  S(<<Y("join"), S(<<Y("list"), S(<<Y("head"), q>>)>>), S(<<Y("tail"), q>>)>>)

InitBuiltin ==
  /\ env = init_env
  /\ last = [op |-> "idle"]
  /\ pc = "read"
  /\ steps = 0
  /\ clock \in ClockReadings

\* fun(env, operands) for the Fun bound to name
CallBuiltin(name, operands) ==
  LET r == fun(St(env, <<>>), name, operands, 1) IN
  /\ env' = r.env
  /\ last' = [op |-> "builtin", name |-> name, operands |-> operands, pre |-> env,
              out |-> r]
  /\ pc' = IF r.res.k = "panic" THEN "crashed" ELSE "done"
  /\ UNCHANGED <<steps, clock>>

\* any builtin on operands of any variant
DoBuiltin ==
  /\ pc = "read"
  /\ \E name \in BuiltinNames, operands \in OperandLists : CallBuiltin(name, operands)

\* an arithmetic builtin on numbers
DoOp ==
  /\ pc = "read"
  /\ \E name \in OpNames, operands \in NumLists : CallBuiltin(name, operands)

\* == and != on two values
DoEq ==
  /\ pc = "read"
  /\ \E name \in {"==", "!="}, x \in EqVals, y \in EqVals : CallBuiltin(name, <<x, y>>)

\* head and tail on a QExpr
DoHeadTail ==
  /\ pc = "read"
  /\ \E name \in {"head", "tail"}, q \in QVals : CallBuiltin(name, <<q>>)

\* eval of (join (list (head q)) (tail q))
DoReconstruct ==
  /\ pc = "read"
  /\ \E q \in QVals :
       LET r == eval(St(env, <<>>), Reconstruct(q), 0) IN
       /\ env' = r.env
       /\ last' = [op |-> "reconstruct", q |-> q, pre |-> env, out |-> r]
       /\ pc' = IF r.res.k = "panic" THEN "crashed" ELSE "done"
  /\ UNCHANGED <<steps, clock>>

\* the next test: let env = &mut init_env()
DoInitEnv ==
  /\ pc = "done"
  /\ env' = init_env
  /\ last' = [op |-> "idle"]
  /\ pc' = "read"
  /\ UNCHANGED <<steps, clock>>

NextBuiltin ==
  \/ DoBuiltin
  \/ DoOp
  \/ DoEq
  \/ DoHeadTail
  \/ DoReconstruct
  \/ DoInitEnv

SpecBuiltin == InitBuiltin /\ [][NextBuiltin]_vars

(***************************************************************************)
(* Properties of the environment (SpecEnv).                                *)
(***************************************************************************)
\* The frames of chain e that bind key, by position (1 is the innermost).
Binders(e, key) == {i \in 1..Len(e) : key \in DOMAIN e[i]}

\* The innermost of them.
Innermost(e, key) == CHOOSE i \in Binders(e, key) : \A j \in Binders(e, key) : i <= j

\* What a lookup of key in e is to give: the value in the innermost frame
\* that binds it, or nothing.
Visible(e, key) ==
  IF Binders(e, key) = {} THEN None ELSE Some(e[Innermost(e, key)][key])

\* e with every frame but the root popped, one pop at a time.
RECURSIVE PopToRoot(_)
PopToRoot(e) == IF Len(e) <= 1 THEN e ELSE PopToRoot(pop(e).env)

\* Frame g is frame f with key bound to lval and nothing else changed.
BoundIn(f, g, key, lval) ==
  /\ DOMAIN g = (DOMAIN f) \cup {key}
  /\ g[key] = lval
  /\ \A x \in (DOMAIN f) \ {key} : g[x] = f[x]

\* C1: get, and the evaluation of a Symbol, give the value bound in the
\* innermost frame that binds the key, whatever outer frames bind; when no
\* frame binds it get gives nothing and the evaluation fails UnboundSymbol.
C1_InnermostBindingWins ==
  /\ last.op = "get" => last.ret = Visible(last.pre, last.key)
  /\ last.op = "eval_symbol" =>
       /\ env = last.pre
       /\ IF Visible(last.pre, last.key).some
          THEN last.res = Ok(Visible(last.pre, last.key).v)
          ELSE /\ last.res.k = "err"
               /\ last.res.etype = "UnboundSymbol"

\* A lookup of a key that two frames bind to different values.
C1_Witness ==
  /\ last.op \in {"get", "eval_symbol"}
  /\ \E i, j \in Binders(last.pre, last.key) :
       i < j /\ last.pre[i][last.key] # last.pre[j][last.key]

\* C2: insert, and `=`, bind the key in the innermost frame only: every
\* outer frame is as before; once that frame is popped the key shows what
\* the outer frames gave it before (the shadowed value, or nothing).
C2_LocalBindingScoped ==
  (last.op \in {"insert", "="} /\ Len(last.pre) >= 1) =>
    /\ Len(env) = Len(last.pre)
    /\ BoundIn(last.pre[1], env[1], last.key, last.val)
    /\ \A i \in 2..Len(env) : env[i] = last.pre[i]
    /\ get(env, last.key) = Some(last.val)
    /\ get(pop(env).env, last.key) = Visible(Tail(last.pre), last.key)
    /\ last.op = "=" => last.res.k = "ok"

\* A local binding that shadows a different outer binding of the key.
C2_Witness ==
  /\ last.op \in {"insert", "="}
  /\ Len(last.pre) >= 2
  /\ Visible(Tail(last.pre), last.key).some
  /\ Visible(Tail(last.pre), last.key).v # last.val
  /\ last.key \notin DOMAIN last.pre[1]

\* C3: insert_last, and `def`, at depth >= 1 bind the key in the root frame
\* and in no other frame; with the inner frames popped the key shows the
\* value defined.
C3_GlobalDefinition ==
  (last.op \in {"insert_last", "def"} /\ Len(last.pre) >= 1) =>
    /\ Len(env) = Len(last.pre)
    /\ BoundIn(last.pre[Len(env)], env[Len(env)], last.key, last.val)
    /\ \A i \in 1..(Len(env) - 1) : env[i] = last.pre[i]
    /\ Len(PopToRoot(env)) = 1
    /\ get(PopToRoot(env), last.key) = Some(last.val)
    /\ last.op = "def" => last.res.k = "ok"

\* A global definition made under two inner frames, none of which binds the key.
C3_Witness ==
  /\ last.op \in {"insert_last", "def"}
  /\ Len(last.pre) >= 3
  /\ Binders(last.pre, last.key) = {}

\* C4 as claimed: after a successful def of k to v, at any depth and over
\* any frames, evaluating k in that environment gives v.
C4_DefineThenRead_Claimed ==
  (last.op = "def" /\ last.res.k = "ok" /\ Len(last.pre) >= 1) =>
    eval(St(env, <<>>), Sym(last.key), 0).res = Ok(last.val)

\* C4 amended: after a successful def of k to v, evaluating k gives v when
\* no frame other than the root binds k, and otherwise the value of the
\* innermost non-root frame that binds k, which the def left as it was.
C4_DefineThenRead ==
  (last.op = "def" /\ last.res.k = "ok" /\ Len(last.pre) >= 1) =>
    LET inner == SubSeq(last.pre, 1, Len(last.pre) - 1) IN
    IF Binders(inner, last.key) = {}
    THEN eval(St(env, <<>>), Sym(last.key), 0).res = Ok(last.val)
    ELSE eval(St(env, <<>>), Sym(last.key), 0).res = Ok(Visible(inner, last.key).v)

\* A def of a key that an inner frame binds to another value.
C4_Witness ==
  /\ last.op = "def"
  /\ last.res.k = "ok"
  /\ Len(last.pre) >= 2
  /\ last.key \in DOMAIN last.pre[1]
  /\ last.pre[1][last.key] # last.val

(***************************************************************************)
(* Properties of call (SpecCall).                                          *)
(***************************************************************************)
Range(f) == {f[i] : i \in DOMAIN f}

\* The position of the first parameter named `:`, 0 when there is none.
FirstColon(params) ==
  IF ":" \in Range(params)
  THEN CHOOSE j \in 1..Len(params) :
         params[j] = ":" /\ \A i \in 1..(j - 1) : params[i] # ":"
  ELSE 0

\* The call neither evaluated anything nor pushed a frame nor changed the
\* environment.
Untouched == last.out.log = <<>> /\ env = last.pre

\* C6: a lambda of n parameters, none `:`, called with k arguments,
\* 0 < k < n, returns a Lambda whose parameters are the last n - k names;
\* that Lambda applied to n - k further arguments gives what the lambda
\* applied to all n at once gives.
C6_Currying ==
  LET params == last.func.args
      n == Len(params)
      k == Len(last.args)
  IN  (last.op = "call" /\ ":" \notin Range(params) /\ 0 < k /\ k < n) =>
        /\ last.out.res.k = "ok"
        /\ last.out.res.v.t = "Lambda"
        /\ last.out.res.v.args = SubSeq(params, k + 1, n)
        /\ last.out.res.v.body = last.func.body
        /\ Untouched
        /\ \A more \in ArgLists :
             Len(more) = n - k =>
               LET two == call(St(env, <<>>), last.out.res.v, more, 0)
                   one == call(St(last.pre, <<>>), last.func, last.args \o more, 0)
               IN  two.res = one.res /\ two.env = one.env

\* A two-parameter lambda given one argument, whose result given the second
\* returns a number.
C6_Witness ==
  /\ last.op = "call"
  /\ last.func.args = <<"a", "b">>
  /\ last.args = <<Num(2)>>
  /\ last.out.res.k = "ok"
  /\ call(St(env, <<>>), last.out.res.v, <<Num(1)>>, 0).res = Ok(Num(1))

\* C7: when binding reaches `:` with an argument still unbound, and one name
\* follows `:`, that name is bound to the QExpr of all the arguments left,
\* in order, and the body is evaluated; when no name or more than one name
\* follows `:` the call fails and the body is not evaluated.
C7_RestParameter ==
  LET params == last.func.args
      j == FirstColon(params)
  IN  (last.op = "call" /\ j >= 1 /\ Len(last.args) >= j) =>
        IF Len(params) = j + 1
        THEN /\ Len(last.out.log) >= 2
             /\ last.out.log[1].e = "push"
             /\ last.out.log[1].frame[params[j + 1]]
                  = Qexpr(SubSeq(last.args, j, Len(last.args)))
             /\ \A i \in 1..(j - 1) :
                  (\A i2 \in (i + 1)..(j + 1) : params[i2] # params[i]) =>
                    last.out.log[1].frame[params[i]] = last.args[i]
             /\ last.out.log[2] = EvEval(Sexpr(last.func.body))
        ELSE /\ last.out.res.k = "err"
             /\ last.out.res.etype = "IncorrectParamCount"
             /\ Untouched

\* A call of (\ [a : b] ...) with three arguments that returns a value.
C7_Witness ==
  /\ last.op = "call"
  /\ last.func.args = <<"a", ":", "b">>
  /\ Len(last.args) = 3
  /\ last.out.res.k = "ok"

\* C8 as claimed: a call with more arguments than the lambda has parameters
\* fails IncorrectParamCount, evaluates nothing and pushes no frame.
C8_TooManyArguments_Claimed ==
  (last.op = "call" /\ Len(last.args) > Len(last.func.args)) =>
    /\ last.out.res.k = "err"
    /\ last.out.res.etype = "IncorrectParamCount"
    /\ Untouched

\* C8 amended: so it is unless the first parameter named `:` is the last
\* but one, the variadic form, which then takes the arguments and runs the
\* body.
C8_TooManyArguments ==
  LET params == last.func.args
      j == FirstColon(params)
  IN  (last.op = "call" /\ Len(last.args) > Len(params)) =>
        IF j >= 1 /\ Len(params) = j + 1
        THEN /\ Len(last.out.log) >= 2
             /\ last.out.log[1].e = "push"
             /\ last.out.log[2] = EvEval(Sexpr(last.func.body))
        ELSE /\ last.out.res.k = "err"
             /\ last.out.res.etype = "IncorrectParamCount"
             /\ Untouched

\* A lambda of parameters without `:` given one argument too many.
C8_Witness ==
  /\ last.op = "call"
  /\ ":" \notin Range(last.func.args)
  /\ Len(last.func.args) >= 1
  /\ Len(last.args) = Len(last.func.args) + 1
  /\ last.out.res.k = "err"

(***************************************************************************)
(* Properties of evaluation (Spec).                                        *)
(***************************************************************************)
\* The positions of the history that hold an event of kind e.
EventsOf(log, e) == {i \in 1..Len(log) : log[i].e = e}

\* Frames pushed and not yet popped after the first i events.
Open(log, i) ==
  Cardinality({x \in EventsOf(log, "push") : x <= i})
    - Cardinality({x \in EventsOf(log, "pop") : x <= i})

\* Event ev applies a lambda to arguments that use up its parameters.
FullyApplied(ev) ==
  /\ ev.e = "apply"
  /\ ev.f.t = "Lambda"
  /\ LET b == BindLoop(ev.f, ev.args, Len(ev.f.args), Len(ev.args))
     IN  b.k = "bound" /\ b.func.args = <<>>

\* C5: every fully applied lambda call pushes one frame, evaluates the body
\* and pops one frame, whether the body returns a value or an error; after
\* a top-level evaluation that returns, the environment has as many frames
\* as before it.
C5_StackDiscipline ==
  (last.op = "from_ast" /\ last.out.res.k # "panic") =>
    LET log == last.out.log IN
    /\ Len(env) = Len(last.pre)
    /\ \A i \in 1..Len(log) : Open(log, i) >= 0
    /\ Open(log, Len(log)) = 0
    /\ \A i \in 1..Len(log) :
         FullyApplied(log[i]) =>
           /\ i + 2 <= Len(log)
           /\ log[i + 1].e = "push"
           /\ log[i + 2] = EvEval(Sexpr(log[i].f.body))
    /\ \A i \in EventsOf(log, "push") : i > 1 /\ FullyApplied(log[i - 1])

\* An evaluation that fails inside the body of a call nested in a call.
C5_Witness ==
  /\ last.op = "from_ast"
  /\ last.out.res.k = "err"
  /\ \E i \in 1..Len(last.out.log) : Open(last.out.log, i) = 2

\* The evaluation of child i of the SExpr cs from environment e0, each
\* child starting from the environment its left neighbour left.
RECURSIVE ChildRun(_, _, _)
ChildRun(e0, cs, i) ==
  eval(St(IF i = 1 THEN e0 ELSE ChildRun(e0, cs, i - 1).env, <<>>), cs[i], 1)

\* The histories of children 1..i, one after the other.
RECURSIVE ChildLogs(_, _, _)
ChildLogs(e0, cs, i) ==
  IF i = 0 THEN <<>> ELSE ChildLogs(e0, cs, i - 1) \o ChildRun(e0, cs, i).log

\* Child i is the first child whose evaluation fails.
FirstFailure(e0, cs, i) ==
  /\ ChildRun(e0, cs, i).res.k = "err"
  /\ \A j \in 1..(i - 1) : ChildRun(e0, cs, j).res.k = "ok"

\* C9: when the evaluation of a child of an SExpr fails, the SExpr's result
\* is that child's error, kind and message; nothing right of the child is
\* evaluated and no function is applied to the results.
C9_ErrorShortCircuit ==
  (last.op = "from_ast" /\ last.ast.t = "Sexpr") =>
    \A i \in 1..Len(last.ast.c) :
      FirstFailure(last.pre, last.ast.c, i) =>
        /\ last.out.res = ChildRun(last.pre, last.ast.c, i).res
        /\ last.out.env = ChildRun(last.pre, last.ast.c, i).env
        /\ last.out.log = <<EvEval(last.ast)>> \o ChildLogs(last.pre, last.ast.c, i)

\* A failing child with a definition to its right.
C9_Witness ==
  /\ last.op = "from_ast"
  /\ last.ast = S(<<Y("list"), Y("u"), S(<<Y("def"), Q(<<Y("a")>>), N(2)>>)>>)
  /\ FirstFailure(last.pre, last.ast.c, 2)
  /\ last.out.res.etype = "UnboundSymbol"

SoleSymbol(ast, sym) ==
  /\ ast.t = "Sexpr"
  /\ \/ ast.c = <<Sym(sym)>>
     \/ ast.c = <<Sym("eval"), Qexpr(<<Sym(sym)>>)>>

\* C11: evaluating an SExpr whose only child is a symbol bound to a builtin,
\* directly or through `eval`, succeeds and yields that builtin itself.
C11_SoleBuiltinIsValue ==
  \A sym \in BuiltinNames :
    (/\ last.op = "from_ast"
     /\ SoleSymbol(last.ast, sym)
     /\ get(last.pre, sym) = Some(Fun(sym))
     /\ get(last.pre, "eval") = Some(Fun("eval")))
      => last.out.res = Ok(Fun(sym))

\* C12: every builtin, on every operand list, returns a value or a typed
\* error; it never panics.
C12_NoPanicInBuiltins ==
  last.op = "builtin" => last.out.res.k \in {"ok", "err"}

\* C13: every evaluation at the top level returns a value or an error and
\* the loop goes on to print and read again; the process never ends in a
\* panic.
C13_TopLevelTotal ==
  /\ pc # "crashed"
  /\ last.op = "from_ast" => (last.out.res.k \in {"ok", "err"} /\ pc = "print")

\* All operands are Numbers.
AllNums(operands) == \A i \in 1..Len(operands) : operands[i].t = "Num"

\* C14: `/` or `%` on two or more Numbers with a right operand that is
\* zero fails with DivZero, whatever the left operand.
C14_DivModByZero ==
  (/\ last.op = "builtin"
   /\ last.name \in {"/", "%"}
   /\ Len(last.operands) >= 2
   /\ AllNums(last.operands)
   /\ \E i \in 2..Len(last.operands) : IsZero(last.operands[i]))
    => (last.out.res.k = "err" /\ last.out.res.etype = "DivZero")

\* One application of `+`, `-` or `*`.
Fold(sym, a, b) ==
  CASE sym = "+" -> F64Add(a, b)
    [] sym = "-" -> F64Sub(a, b)
    [] sym = "*" -> F64Mul(a, b)

\* The left fold of the operator over the first n numbers.
RECURSIVE LeftFold(_, _, _)
LeftFold(sym, nums, n) ==
  IF n = 1 THEN nums[1] ELSE Fold(sym, LeftFold(sym, nums, n - 1), nums[n])

\* C15: `+`, `-`, `*` on two or more Numbers return the left fold of the
\* operator over them in order (`+ x y` is x + y); on one Number `-` returns
\* its negation and `+`, `*`, `/`, `%` return it unchanged; with an operand
\* that is not a Number the call fails with BadNum.
C15_ArithmeticResult ==
  (last.op = "builtin" /\ last.name \in {"+", "-", "*", "/", "%"}) =>
    LET ops == last.operands
        res == last.out.res
    IN  /\ ~AllNums(ops) => (res.k = "err" /\ res.etype = "BadNum")
        /\ (AllNums(ops) /\ Len(ops) = 1) =>
             /\ res.k = "ok"
             /\ IF last.name = "-"
                THEN res.v.t = "Num" /\ IsZero(F64Add(res.v, ops[1]))
                ELSE res.v = ops[1]
        /\ (AllNums(ops) /\ Len(ops) >= 2 /\ last.name \in {"+", "-", "*"}) =>
             res = Ok(LeftFold(last.name, ops, Len(ops)))
        /\ (AllNums(ops) /\ Len(ops) = 2 /\ last.name = "+") =>
             /\ res.k = "ok"
             /\ res.v.n * (ops[1].d * ops[2].d)
                  = (ops[1].n * ops[2].d + ops[2].n * ops[1].d) * res.v.d

\* 3 - (-2) - 1/2 is 9/2.
C15_Witness ==
  /\ last.op = "builtin"
  /\ last.name = "-"
  /\ last.operands = <<Num(3), Num(-2), NumQ(1, 2)>>
  /\ last.out.res = Ok(NumQ(9, 2))

\* C16: `!` on one Number returns 1 for zero and 0 otherwise; on two or
\* more operands the call fails instead of returning a Number.
C16_NotIsUnary ==
  (last.op = "builtin" /\ last.name = "!" /\ AllNums(last.operands)) =>
    /\ Len(last.operands) = 1 =>
         last.out.res = Ok(IF IsZero(last.operands[1]) THEN Num(1) ELSE Num(0))
    /\ Len(last.operands) >= 2 => last.out.res.k = "err"

\* The structure of a value: its variant and parts, a Lambda's captured
\* environment left out.
RECURSIVE Shape(_)
Shape(v) ==
  CASE v.t = "Lambda" ->
         [t |-> "Lambda", args |-> v.args,
          body |-> [i \in 1..Len(v.body) |-> Shape(v.body[i])]]
    [] v.t \in {"Sexpr", "Qexpr"} ->
         [t |-> v.t, c |-> [i \in 1..Len(v.c) |-> Shape(v.c[i])]]
    [] OTHER -> v

\* The value holds a NaN, which by the rules of f64 equals nothing.
RECURSIVE HasNaN(_)
HasNaN(v) ==
  CASE v.t = "Num" -> IsNaN(v)
    [] v.t = "Lambda" -> \E i \in 1..Len(v.body) : HasNaN(v.body[i])
    [] v.t \in {"Sexpr", "Qexpr"} -> \E i \in 1..Len(v.c) : HasNaN(v.c[i])
    [] OTHER -> FALSE

\* C17: `==` on two operands returns 1 iff they have the same structure
\* and 0 otherwise, `!=` the opposite; values of different variants are
\* never equal, two Builtins are equal iff their names match, two Lambdas
\* iff parameters and bodies match whatever they captured; any other
\* operand count fails with IncorrectParamCount.
C17_Equality ==
  (last.op = "builtin" /\ last.name \in {"==", "!="}) =>
    LET ops == last.operands
        res == last.out.res
        yes == IF last.name = "==" THEN Ok(Num(1)) ELSE Ok(Num(0))
        no == IF last.name = "==" THEN Ok(Num(0)) ELSE Ok(Num(1))
    IN  IF Len(ops) # 2
        THEN res.k = "err" /\ res.etype = "IncorrectParamCount"
        ELSE /\ res = IF Shape(ops[1]) = Shape(ops[2]) /\ ~HasNaN(ops[1])
                      THEN yes ELSE no
             /\ ops[1].t # ops[2].t => res = no
             /\ (ops[1].t = "Fun" /\ ops[2].t = "Fun") =>
                  (res = yes <=> ops[1].name = ops[2].name)
             /\ (ops[1].t = "Lambda" /\ ops[2].t = "Lambda"
                   /\ ops[1].args = ops[2].args /\ ops[1].body = ops[2].body) =>
                  res = yes
             /\ last.out.env = last.pre

\* Two lambdas of the same parameters and body that captured different
\* frames compare equal.
C17_Witness ==
  /\ last.op = "builtin"
  /\ last.name = "=="
  /\ Len(last.operands) = 2
  /\ last.operands[1].t = "Lambda"
  /\ last.operands[2].t = "Lambda"
  /\ last.operands[1].lenv # last.operands[2].lenv
  /\ last.out.res = Ok(Num(1))

\* C18: `head` and `tail` fail with IncorrectParamCount unless given one
\* operand (whatever its type), with WrongType when it is not a QExpr, with
\* EmptyList when it is the empty QExpr; otherwise `head` returns the first
\* item and `tail` the QExpr of the items after it, in order.
C18_HeadTailContract ==
  (last.op = "builtin" /\ last.name \in {"head", "tail"}) =>
    LET ops == last.operands
        res == last.out.res
    IN  /\ last.out.env = last.pre
        /\ IF Len(ops) # 1
           THEN res.k = "err" /\ res.etype = "IncorrectParamCount"
           ELSE IF ops[1].t # "Qexpr"
           THEN res.k = "err" /\ res.etype = "WrongType"
           ELSE IF Len(ops[1].c) = 0
           THEN res.k = "err" /\ res.etype = "EmptyList"
           ELSE IF last.name = "head"
           THEN res = Ok(ops[1].c[1])
           ELSE /\ res.k = "ok"
                /\ res.v.t = "Qexpr"
                /\ Len(res.v.c) = Len(ops[1].c) - 1
                /\ \A i \in 1..Len(res.v.c) : res.v.c[i] = ops[1].c[i + 1]

\* tail of a QExpr of three different items.
C18_Witness ==
  /\ last.op = "builtin"
  /\ last.name = "tail"
  /\ last.operands = <<Qexpr(<<Qexpr(<<Num(2)>>), Num(1), Sym("a")>>)>>
  /\ last.out.res = Ok(Qexpr(<<Num(1), Sym("a")>>))

\* C19: for a QExpr q that is not empty, (join (list (head q)) (tail q))
\* evaluates to q, also when q has one item and when its first item is a
\* QExpr.
C19_ListReconstruction ==
  (last.op = "reconstruct" /\ Len(last.q.c) >= 1) =>
    /\ last.out.res = Ok(last.q)
    /\ LvalEq(last.out.res.v, last.q)
    /\ last.out.env = last.pre

\* A QExpr whose first item is a QExpr, put together again.
C19_Witness ==
  /\ last.op = "reconstruct"
  /\ last.q = Qexpr(<<Qexpr(<<Num(2)>>), Num(1)>>)
  /\ last.out.res = Ok(last.q)

(***************************************************************************)
(* Properties of `def` and `=` on any operands (SpecAssign).               *)
(***************************************************************************)
\* The first operand is a QExpr of Symbols only.
IsNameList(v) == v.t = "Qexpr" /\ \A i \in 1..Len(v.c) : v.c[i].t = "Sym"

\* C20: `def` and `=` fail with IncorrectParamCount on fewer than two
\* operands or when names and values differ in number, with WrongType when
\* the first operand is no QExpr or holds a non-Symbol; whenever they fail,
\* no frame has gained or changed a binding.
C20_AssignFailureAtomic ==
  last.op = "assign" =>
    LET ops == last.operands
        res == last.res
    IN  /\ res.k = "err" => env = last.pre
        /\ IF Len(ops) < 2
           THEN res.k = "err" /\ res.etype = "IncorrectParamCount"
           ELSE IF ~IsNameList(ops[1])
           THEN res.k = "err" /\ res.etype = "WrongType"
           ELSE IF Len(ops[1].c) # Len(ops) - 1
           THEN res.k = "err" /\ res.etype = "IncorrectParamCount"
           ELSE res.k = "ok"

\* Two names and one value, two frames deep, over frames that hold
\* bindings.
C20_Witness ==
  /\ last.op = "assign"
  /\ last.operands = <<Qexpr(<<Sym("a"), Sym("b")>>), Num(2)>>
  /\ last.res.k = "err"
  /\ Len(last.pre) >= 2
  /\ get(last.pre, "a") = Some(Num(1))
  /\ env = last.pre

\* C21 (as claimed): a successful `def` (as many values as names) returns
\* the empty S-expression as its value.
C21_DefReturnsEmptySexpr ==
  (last.op = "assign" /\ last.sym = "def" /\ last.res.k = "ok") =>
    last.res = Ok(Sexpr(<<>>))

(***************************************************************************)
(* SpecClosure: one lambda is constructed by `\` in an environment built   *)
(* by `def`, `=` and calls, the environment is then changed, and the       *)
(* lambda is called.                                                       *)
(***************************************************************************)
\* frames a call may have pushed over the root frame
MaxNest == 1

\* bodies that return what a name resolves to
ObserveBody(k) == <<Sym("list"), Sym(k)>>

\* a body that calls `f` again until its parameter is zero
RecBody ==
  <<Sym("if"), Sym("a"), Qexpr(<<Sym("f"), Num(0)>>), Qexpr(ObserveBody("b"))>>

ClosureShapes ==
  {[params |-> <<>>, body |-> ObserveBody(k)] : k \in Keys}
    \cup {[params |-> <<"a">>, body |-> ObserveBody("b")],
          [params |-> <<"a">>, body |-> RecBody]}

ClosureArgs(func) ==
  IF func.args = <<>> THEN {<<>>} ELSE {<<Num(0)>>, <<Num(1)>>}

\* what the innermost frame binds each of Keys to
Captured(e) == [k \in Keys |-> HashMapGet(peek(e).v, k)]

InitClosure ==
  /\ env = init_env
  /\ last = [op |-> "idle"]
  /\ pc = "read"
  /\ steps = 0
  /\ clock = 0

\* (def [key] val) or (= [key] val), before or after the construction
DoBind ==
  /\ pc \in {"read", "held"}
  /\ \E sym \in {"def", "="}, key \in Keys, val \in Vals :
       env' = builtin_assign(sym, env, <<Qexpr(<<Sym(key)>>), val>>).env
  /\ last' = IF pc = "held" THEN [op |-> "held", func |-> last.func, cap |-> last.cap]
             ELSE last
  /\ UNCHANGED <<pc, steps, clock>>

\* the frame a call pushes: a copy of a frame captured from the chain
DoEnter ==
  /\ pc \in {"read", "held"}
  /\ Len(env) < 1 + MaxNest
  /\ env' = push(env, peek(env).v)
  /\ last' = IF pc = "held" THEN [op |-> "held", func |-> last.func, cap |-> last.cap]
             ELSE last
  /\ UNCHANGED <<pc, steps, clock>>

\* (\ [params] [body])
DoMake ==
  /\ pc = "read"
  /\ \E shape \in ClosureShapes :
       LET r == builtin_lambda(env, <<Qexpr([i \in 1..Len(shape.params) |->
                                              Sym(shape.params[i])]),
                                      Qexpr(shape.body)>>)
       IN  last' = [op |-> "made", func |-> r.v, cap |-> Captured(env), at |-> env]
  /\ pc' = "held"
  /\ UNCHANGED <<env, steps, clock>>

\* (def [f] <the lambda>): the lambda is named after its construction
DoName ==
  /\ pc = "held"
  /\ env' = builtin_def(env, <<Qexpr(<<Sym("f")>>), last.func>>).env
  /\ last' = [op |-> "held", func |-> last.func, cap |-> last.cap]
  /\ UNCHANGED <<pc, steps, clock>>

\* the lambda is called where the environment now stands
DoCallHeld ==
  /\ pc = "held"
  /\ \E args \in ClosureArgs(last.func) :
       LET r == call(St(env, <<>>), last.func, args, 0) IN
       /\ env' = r.env
       /\ last' = [op |-> "called", func |-> last.func, cap |-> last.cap,
                   args |-> args, pre |-> env, out |-> r]
  /\ pc' = "done"
  /\ UNCHANGED <<steps, clock>>

NextClosure == DoBind \/ DoEnter \/ DoMake \/ DoName \/ DoCallHeld

SpecClosure == InitClosure /\ [][NextClosure]_vars

\* the value a call of an observing body returned for the name it observes
Seen(res) == res.v.c[1]

Observes(k) ==
  /\ last.op = "called"
  /\ last.func.body = ObserveBody(k)
  /\ \A i \in 1..Len(last.func.args) : last.func.args[i] # k

\* C22: once a lambda has been constructed, rebinding with `=` or `def` a
\* name that was bound in the frame it captured does not change the value
\* its body sees for that name when it is later called.
C22_CaptureIsSnapshot ==
  \A k \in Keys :
    (Observes(k) /\ last.cap[k].some) =>
      last.out.res = Ok(Qexpr(<<last.cap[k].v>>))

\* The name was rebound after the construction, in the frame the lambda
\* was made in, and the call returned the captured value.
C22_Witness ==
  /\ Observes("a")
  /\ last.cap["a"] = Some(Num(1))
  /\ get(last.pre, "a") = Some(Num(2))
  /\ last.out.res = Ok(Qexpr(<<Num(1)>>))

\* the names of Keys bound in the chain but not in its innermost frame
OuterOnly(e) ==
  {k \in Keys : get(e, k).some /\ ~HashMapGet(peek(e).v, k).some}

\* C23 (as claimed): a lambda constructed while the environment has more
\* than one frame owns a copy of the whole chain, so a name bound only in a
\* non-innermost frame at construction time is resolvable from the lambda's
\* own captured environment.
C23_CaptureCoversChain_Claimed ==
  (last.op = "made" /\ Len(last.at) > 1) =>
    \A k \in OuterOnly(last.at) : get(last.func.lenv, k) = get(last.at, k)

\* C23 (amended): a lambda constructed while the environment has more than
\* one frame owns a copy of the innermost frame alone, so a name bound only
\* in a non-innermost frame at construction time is not resolvable from the
\* lambda's own captured environment.
C23_CaptureCoversInnermost ==
  (last.op = "made" /\ Len(last.at) > 1) =>
    /\ last.func.lenv = <<peek(last.at).v>>
    /\ \A k \in OuterOnly(last.at) : get(last.func.lenv, k) = None

\* A lambda made under a pushed frame while `a` is bound in the root only.
C23_Witness ==
  /\ last.op = "made"
  /\ Len(last.at) = 2
  /\ "a" \in OuterOnly(last.at)
  /\ get(last.at, "a") = Some(Num(1))
  /\ get(last.func.lenv, "a") = None

\* what a lookup of k in chain e makes of an observing body's call
Resolved(e, k) ==
  IF get(e, k).some THEN Ok(Qexpr(<<get(e, k).v>>))
  ELSE Lerr_new("UnboundSymbol", "{:?} has not been defined", <<Sym(k)>>)

\* C27: a symbol of a lambda body that neither a parameter nor the captured
\* frame binds is looked up, at call time, in the environment of the call
\* site; so a lambda given a name by `def` after its construction calls
\* itself by that name, and it sees globals defined after it was made.
C27_FreeNamesThroughCaller ==
  /\ \A k \in Keys :
       (Observes(k) /\ ~last.cap[k].some) =>
         last.out.res = Resolved(last.pre, k)
  /\ (/\ last.op = "called"
      /\ last.func.body = RecBody
      /\ last.args = <<Num(1)>>) =>
       IF get(last.pre, "f").some
       THEN /\ get(last.pre, "f").v = last.func
            /\ last.out.res = IF last.cap["b"].some
                              THEN Ok(Qexpr(<<last.cap["b"].v>>))
                              ELSE Resolved(last.pre, "b")
            /\ Cardinality(EventsOf(last.out.log, "push")) = 2
       ELSE last.out.res = Resolved(last.pre, "f")

\* A lambda named by `def` after its construction has called itself by
\* that name and returned a global that was bound after it was made.
C27_Witness ==
  /\ last.op = "called"
  /\ last.func.body = RecBody
  /\ last.args = <<Num(1)>>
  /\ get(last.pre, "f") = Some(last.func)
  /\ last.cap["b"] = None
  /\ last.out.res = Ok(Qexpr(<<Num(2)>>))
  /\ Cardinality(EventsOf(last.out.log, "push")) = 2

\* the lambda a partial application of l to the number n returns
Partial(l, n) ==
  Lambda(Tail(l.args), l.body, insert(l.lenv, Head(l.args), Num(n)))

\* C24: binding arguments in a call or a partial application changes only
\* the value that call returns: the lambda still bound in the environment
\* keeps its parameter list and captured bindings, and two partial
\* applications of one lambda to different arguments each hold their own
\* argument.
C24_NoCrossClosureMutation ==
  (/\ last.op = "from_ast"
   /\ last.ast # DefF
   /\ get(last.pre, "f").some) =>
    LET f == get(last.pre, "f").v IN
    /\ get(env, "f") = Some(f)
    /\ last.ast = S(<<Y("f"), N(2)>>) => last.out.res = Ok(Partial(f, 2))
    /\ last.ast = TwoPartials =>
         last.out.res = Ok(Qexpr(<<Partial(f, 1), Partial(f, 2)>>))
    /\ last.ast = S(<<Y("f"), N(2), N(1)>>) => last.out.res = Ok(Num(1))

\* f was applied to 1 and to 2 in one expression and is then applied in
\* full: every result holds its own argument.
C24_Witness ==
  /\ last.op = "from_ast"
  /\ last.ast = TwoPartials
  /\ get(last.pre, "f").some
  /\ get(env, "f").v.args = <<"x", "y">>
  /\ last.out.res.k = "ok"
  /\ get(last.out.res.v.c[1].lenv, "x") = Some(Num(1))
  /\ get(last.out.res.v.c[2].lenv, "x") = Some(Num(2))
  /\ get(get(env, "f").v.lenv, "x") = None

\* C28: a lambda that still has parameters, invoked with no argument (as
\* when it is the sole result of an SExpr), comes back as a Lambda with the
\* same parameters and body; the body is not evaluated and the environment
\* is unchanged. A lambda whose parameters are `: rest` is thus never run
\* with an empty rest list.
C28_ZeroArgsNoProgress ==
  (last.op = "call" /\ last.args = <<>> /\ last.func.args # <<>>) =>
    LET sole == eval(St(last.pre, <<>>), Sexpr(<<last.func>>), 0)
    IN  /\ last.out.res = Ok(last.func)
        /\ last.out.log = <<>>
        /\ env = last.pre
        /\ sole.res = Ok(last.func)
        /\ sole.env = last.pre
        /\ EventsOf(sole.log, "push") = {}
        /\ \A i \in EventsOf(sole.log, "eval") : sole.log[i].expr.t # "Sym"

\* The lambda (\ [: b] [list a b]) called with no argument.
C28_Witness ==
  /\ last.op = "call"
  /\ last.args = <<>>
  /\ last.func.args = <<":", "b">>
  /\ last.func.body = <<Sym("list"), Sym("a"), Sym("b")>>
  /\ last.out.res = Ok(last.func)
  /\ env = last.pre

RECURSIVE OneFrameLambdas(_)
OneFrameLambdas(v) ==
  CASE v.t = "Lambda" ->
         /\ Len(v.lenv) = 1
         /\ \A k \in DOMAIN v.lenv[1] : OneFrameLambdas(v.lenv[1][k])
         /\ \A i \in 1..Len(v.body) : OneFrameLambdas(v.body[i])
    [] v.t \in {"Sexpr", "Qexpr"} -> \A i \in 1..Len(v.c) : OneFrameLambdas(v.c[i])
    [] OTHER -> TRUE

\* the same of every value bound in chain e
OneFrameLambdasIn(e) ==
  \A i \in 1..Len(e) : \A k \in DOMAIN e[i] : OneFrameLambdas(e[i][k])

\* C30: from init_env on, the environment has at least one frame at every
\* point of every evaluation, and every Lambda value, constructed or
\* partially applied, has a captured environment of exactly one frame; so
\* the innermost-frame lookups of lambda construction and of call never
\* meet an empty chain.
C30_FramePresence ==
  /\ Len(env) >= 1
  /\ OneFrameLambdasIn(env)
  /\ last.op = "from_ast" =>
       LET log == last.out.log
           res == last.out.res
       IN  /\ \A i \in 1..Len(log) : Len(last.pre) + Open(log, i) >= 1
           /\ \A i \in EventsOf(log, "apply") :
                /\ OneFrameLambdas(log[i].f)
                /\ \A j \in 1..Len(log[i].args) : OneFrameLambdas(log[i].args[j])
           /\ \A i \in EventsOf(log, "push") :
                \A k \in DOMAIN log[i].frame : OneFrameLambdas(log[i].frame[k])
           /\ res.k = "ok" => OneFrameLambdas(res.v)
           /\ res.k = "panic" =>
                res.why \notin {"unwrap on None: env.peek()",
                                "unwrap on None: func.env.peek()"}

\* Two frames were open over the root at once during a call nested in a
\* call, while the root held the lambda f.
C30_Witness ==
  /\ last.op = "from_ast"
  /\ get(last.pre, "f").some
  /\ get(last.pre, "f").v.t = "Lambda"
  /\ last.out.res = Ok(Num(-1))
  /\ \E i \in 1..Len(last.out.log) : Open(last.out.log, i) = 2

(***************************************************************************)
(* The parser: nom combinators over the characters of the source text.     *)
(* An IResult is the value parsed and the input left, or an error at the   *)
(* input it could not take.                                                *)
(***************************************************************************)
\* source texts are at most this long
MaxSrcLen == 4

IResult(ok, rest, v) ==
  IF ok THEN [ok |-> TRUE, rest |-> rest, v |-> v] ELSE [ok |-> FALSE, rest |-> rest]

\* how many leading characters of s are (member) or are not (~member) in set
RECURSIVE Span(_, _, _)
Span(s, set, member) ==
  IF s = <<>> \/ ((s[1] \in set) # member) THEN 0
  ELSE 1 + Span(Tail(s), set, member)

multispace0(s) == SubSeq(s, Span(s, {" ", "\t", "\n", "\r"}, TRUE) + 1, Len(s))

RECURSIVE NatOf(_)
NatOf(cs) ==
  IF cs = <<>> THEN 0
  ELSE 10 * NatOf(SubSeq(cs, 1, Len(cs) - 1))
         + (CHOOSE n \in 0..9 : NatChars(n) = <<cs[Len(cs)]>>)

\* nom's double on signs and digits: an optional sign and one digit or more
\* (a fraction, an exponent, nan and inf need characters SrcChars lacks)
double(s) ==
  LET signed == s # <<>> /\ s[1] \in {"+", "-"}
      body == IF signed THEN Tail(s) ELSE s
      n == Span(body, {"0", "1", "2", "3", "4", "5", "6", "7", "8", "9"}, TRUE)
      magnitude == NatOf(SubSeq(body, 1, n))
  IN  IF n = 0 THEN IResult(FALSE, s, None)
      ELSE IResult(TRUE, SubSeq(body, n + 1, Len(body)),
                   IF signed /\ s[1] = "-" THEN -magnitude ELSE magnitude)

parse_number(s) ==
  LET r == double(multispace0(s)) IN
  IF r.ok THEN IResult(TRUE, r.rest, Num(r.v)) ELSE r

parse_symbol(s) ==
  LET s1 == multispace0(s)
      n == Span(s1, SymbolChars, TRUE)
  IN  IF n = 0 THEN IResult(FALSE, s1, None)
      ELSE IResult(TRUE, SubSeq(s1, n + 1, Len(s1)), Sym(Implode(SubSeq(s1, 1, n))))

parse_string(s) ==
  LET s1 == multispace0(s) IN
  IF s1 = <<>> \/ s1[1] # "\"" THEN IResult(FALSE, s1, None)
  ELSE LET body == Tail(s1)
           n == Span(body, {"\""}, FALSE)
           s2 == multispace0(SubSeq(body, n + 1, Len(body)))
       IN  IF s2 = <<>> THEN IResult(FALSE, s2, None)
           ELSE IResult(TRUE, Tail(s2), Str(SubSeq(body, 1, n)))

RECURSIVE parse_expression(_)
RECURSIVE Many0(_, _)
\* delimited(preceded(multispace0, char(open)), many0(parse_expression),
\*           preceded(multispace0, char(close)))
Delimited(s, open, close) ==
  LET s1 == multispace0(s) IN
  IF s1 = <<>> \/ s1[1] # open THEN IResult(FALSE, s1, None)
  ELSE LET m == Many0(Tail(s1), <<>>)
           s2 == multispace0(m.rest)
       IN  IF s2 = <<>> \/ s2[1] # close THEN IResult(FALSE, s2, None)
           ELSE IResult(TRUE, Tail(s2), m.v)

parse_sexpression(s) ==
  LET r == Delimited(s, "(", ")") IN
  IF r.ok THEN IResult(TRUE, r.rest, Sexpr(r.v)) ELSE r

parse_qexpression(s) ==
  LET r == Delimited(s, "[", "]") IN
  IF r.ok THEN IResult(TRUE, r.rest, Qexpr(r.v)) ELSE r

\* alt: the first of the five that takes the input
parse_expression(s) ==
  IF parse_number(s).ok THEN parse_number(s)
  ELSE IF parse_symbol(s).ok THEN parse_symbol(s)
  ELSE IF parse_string(s).ok THEN parse_string(s)
  ELSE IF parse_sexpression(s).ok THEN parse_sexpression(s)
  ELSE parse_qexpression(s)

\* many0(parse_expression): expressions until one fails; the input is left
\* where that one began
Many0(s, acc) ==
  LET r == parse_expression(s) IN
  IF ~r.ok THEN IResult(TRUE, s, acc)
  ELSE Many0(r.rest, Append(acc, r.v))

\* root, were the input left over not an error
root_PartialSuccess(s) ==
  LET m == Many0(multispace0(s), <<>>) IN
  IResult(TRUE, multispace0(m.rest), Sexpr(m.v))

\* all_consuming(delimited(multispace0, many0(parse_expression), multispace0))
root(s) ==
  LET m == Many0(multispace0(s), <<>>)
      s2 == multispace0(m.rest)
  IN  IF s2 = <<>> THEN IResult(TRUE, s2, Sexpr(m.v))
      ELSE IResult(FALSE, s2, None)

\* Compile::from_source: the parse error as text (here the input it stopped
\* at), or what from_ast makes of the tree
from_source(st, source, d) ==
  IF ~root(source).ok
  THEN Ret(st, [k |-> "parse_error", at |-> root(source).rest])
  ELSE eval(st, root(source).v, d)

\* println!("{:?}", ast): the line from_source prints once the text is parsed
AstLine(source) ==
  IF root(source).ok THEN Some(FmtLval(root(source).v)) ELSE None

(***************************************************************************)
(* SpecSource: lines of source text handed to from_source.                 *)
(***************************************************************************)
Sources == SeqsUpTo(SrcChars, MaxSrcLen)

\* (def [a] 1), so that the texts are read over two environments
DoDefineA ==
  /\ pc = "read"
  /\ ~get(env, "a").some
  /\ env' = eval(St(env, <<>>), S(<<Y("def"), Q(<<Y("a")>>), N(1)>>), 0).env
  /\ UNCHANGED <<last, pc, steps, clock>>

DoFromSource ==
  /\ pc = "read"
  /\ \E source \in Sources :
       last' = [op |-> "from_source", source |-> source, pre |-> env,
                out |-> from_source(St(env, <<>>), source, 0),
                printed |-> AstLine(source)]
  /\ env' = last'.out.env
  /\ pc' = IF last'.out.res.k = "panic" THEN "crashed" ELSE "print"
  /\ UNCHANGED <<steps, clock>>

NextSource == DoDefineA \/ DoFromSource

SpecSource == InitClosure /\ [][NextSource]_vars

\* how many times character c stands in text s
Count(s, c) == Cardinality({i \in 1..Len(s) : s[i] = c})

\* Texts the grammar cannot consume whole, told without parsing them: an
\* odd number of quotes; or, with no quote at all, brackets of a kind that
\* do not pair up, or a closing bracket in front.
Unparseable(s) ==
  \/ Count(s, "\"") % 2 = 1
  \/ /\ Count(s, "\"") = 0
     /\ \/ Count(s, "(") # Count(s, ")")
        \/ Count(s, "[") # Count(s, "]")
        \/ (s # <<>> /\ s[1] \in {")", "]"})

\* C25: when the grammar does not consume the whole source text (an
\* unterminated `(`, trailing text it cannot parse), from_source returns
\* the parse error, evaluates nothing and leaves the environment as it was.
C25_ParseFailureIsolates ==
  last.op = "from_source" =>
    /\ Unparseable(last.source) => last.out.res.k = "parse_error"
    /\ last.out.res.k = "parse_error" =>
         /\ last.out.log = <<>>
         /\ last.printed = None
         /\ env = last.pre

\* `1 a)` read where a is bound: a number and a bound symbol, then text the
\* grammar cannot take.
C25_Witness ==
  /\ last.op = "from_source"
  /\ last.source = <<"1", "a", ")">>
  /\ get(last.pre, "a") = Some(Num(1))
  /\ last.out.res.k = "parse_error"
  /\ last.out.res.at = <<")">>
  /\ env = last.pre

\* C26 (as claimed): for every source text the parser accepts, printing the
\* parsed Value and parsing the printed text again yields a Value
\* structurally equal to the first (or to the first inside the SExpr that
\* root puts around every text), for values built from Numbers, Symbols,
\* Strings, SExprs and QExprs.
C26_PrintParseRoundTrip ==
  (last.op = "from_source" /\ last.printed.some) =>
    LET first == root(last.source).v
        again == root(last.printed.v)
    IN  /\ again.ok
        /\ LvalEq(again.v, first) \/ LvalEq(again.v, Sexpr(<<first>>))

====
